---- MODULE Spec2Model ----
(***************************************************************************)
(* A model of the trading core of nawkar-bot: indicator computation and    *)
(* condition evaluation (app/core/strategy_manager.py), the live trade     *)
(* lifecycle (app/core/order_manager.py) and the backtest replay           *)
(* (app/core/backtest_engine.py).                                          *)
(*                                                                         *)
(* Numbers.  The program computes in IEEE doubles; the model computes in   *)
(* exact rationals n/d (d > 0, lowest terms), extended with the three      *)
(* non-finite doubles: NaN (0/0), +inf (1/0) and -inf (-1/0).  Rounding of *)
(* doubles is not modelled.  A value can also be a Python str (a condition *)
(* token that names no column): .s holds it, and .s = "" for a number.     *)
(***************************************************************************)
EXTENDS Integers, Sequences, FiniteSets, TLC

--------------------------------------------------------------------------
(* Values *)

Abs(x) == IF x < 0 THEN -x ELSE x

RECURSIVE GCD(_, _)
GCD(a, b) == IF b = 0 THEN a ELSE GCD(b, a % b)

\* the double n/d, d > 0
Rat(n, d) ==
    LET g == GCD(Abs(n), d)
    IN  [s |-> "", n |-> n \div g, d |-> d \div g]

Int2Val(k) == [s |-> "", n |-> k, d |-> 1]
NaN == [s |-> "", n |-> 0, d |-> 0]
PosInf == [s |-> "", n |-> 1, d |-> 0]
NegInf == [s |-> "", n |-> -1, d |-> 0]
Str(t) == [s |-> t, n |-> 0, d |-> 0]

IsStr(x) == x.s # ""
IsNaN(x) == x.s = "" /\ x.d = 0 /\ x.n = 0
IsFinite(x) == x.s = "" /\ x.d > 0
Sign(x) == IF x.n > 0 THEN 1 ELSE IF x.n < 0 THEN -1 ELSE 0

Neg(a) == [a EXCEPT !.n = -a.n]

Add(a, b) ==
    IF IsNaN(a) \/ IsNaN(b) THEN NaN
    ELSE IF a.d > 0 /\ b.d > 0 THEN Rat(a.n * b.d + b.n * a.d, a.d * b.d)
    ELSE IF a.d > 0 THEN b
    ELSE IF b.d > 0 THEN a
    ELSE IF a.n = b.n THEN a ELSE NaN

Sub(a, b) == Add(a, Neg(b))

Mul(a, b) ==
    IF IsNaN(a) \/ IsNaN(b) THEN NaN
    ELSE IF a.d > 0 /\ b.d > 0 THEN Rat(a.n * b.n, a.d * b.d)
    ELSE IF Sign(a) * Sign(b) = 0 THEN NaN
    ELSE IF Sign(a) * Sign(b) > 0 THEN PosInf ELSE NegInf

\* float division as numpy does it: x/0 is +-inf, 0/0 is NaN, no exception
Div(a, b) ==
    IF IsNaN(a) \/ IsNaN(b) THEN NaN
    ELSE IF a.d > 0 /\ b.d > 0
         THEN IF b.n = 0
              THEN (IF a.n = 0 THEN NaN ELSE IF a.n > 0 THEN PosInf ELSE NegInf)
              ELSE Rat(Sign(b) * a.n * b.d, a.d * Abs(b.n))
    ELSE IF a.d > 0 THEN Int2Val(0)
    ELSE IF b.d > 0 THEN (IF Sign(a) * (IF b.n < 0 THEN -1 ELSE 1) > 0 THEN PosInf ELSE NegInf)
    ELSE NaN

\* a < b on doubles: false when either is NaN
NumLt(a, b) ==
    /\ ~IsNaN(a)
    /\ ~IsNaN(b)
    /\ IF a.d > 0 /\ b.d > 0 THEN a.n * b.d < b.n * a.d
       ELSE IF a.d = 0 /\ b.d = 0 THEN a.n < b.n
       ELSE IF a.d = 0 THEN a.n < 0
       ELSE b.n > 0

NumEq(a, b) == ~IsNaN(a) /\ ~IsNaN(b) /\ a = b
NumLe(a, b) == NumLt(a, b) \/ NumEq(a, b)

--------------------------------------------------------------------------
(* IndicatorCalculator: StrategyManager.calculate_indicators.  A DataFrame *)
(* is a sequence of rows, a row a function from column names to values.    *)

DefaultPeriod == 14

\* str.lower() on the indicator type
Lower(t) ==
    CASE t \in {"EMA", "Ema"} -> "ema"
      [] t \in {"SMA", "Sma"} -> "sma"
      [] t \in {"RSI", "Rsi"} -> "rsi"
      [] OTHER -> t

Column(df, name) == [i \in 1..Len(df) |-> df[i][name]]

\* df[name] = col: adds the column or overwrites it
WithColumn(df, name, col) == [i \in 1..Len(df) |-> (name :> col[i]) @@ df[i]]

\* one more value of the exponentially weighted mean y of x:
\* y[1] = x[1], y[k] = alpha*x[k] + (1 - alpha)*y[k-1]
ewm_step(y, xk, alpha) ==
    Append(y, IF y = <<>> THEN xk
              ELSE Add(Mul(alpha, xk), Mul(Sub(Int2Val(1), alpha), y[Len(y)])))

\* y extended by the values for x[lo..hi], left to right.  The range is
\* halved, and the left half is computed before the right one is entered
\* (the test on its length forces it), only to keep the evaluation shallow.
RECURSIVE EwmFold(_, _, _, _, _)
EwmFold(y, x, alpha, lo, hi) ==
    IF lo > hi THEN y
    ELSE IF lo = hi THEN ewm_step(y, x[lo], alpha)
    ELSE LET mid  == (lo + hi) \div 2
             left == EwmFold(y, x, alpha, lo, mid)
         IN  IF Len(left) >= 0 THEN EwmFold(left, x, alpha, mid + 1, hi) ELSE left

\* Series.ewm(span=period, adjust=False).mean(), alpha = 2/(span+1)
EwmMean(x, period) == EwmFold(<<>>, x, Rat(2, period + 1), 1, Len(x))

\* x[lo] + ... + x[hi]
RECURSIVE SumFrom(_, _, _)
SumFrom(x, lo, hi) ==
    IF lo > hi THEN Int2Val(0)
    ELSE IF lo = hi THEN x[lo]
    ELSE LET mid == (lo + hi) \div 2
         IN  Add(SumFrom(x, lo, mid), SumFrom(x, mid + 1, hi))

\* Series.rolling(window=w, min_periods=1).mean(): the mean of what exists
RollingMean_partial(x, w) ==
    [i \in 1..Len(x) |->
        IF i < w THEN Div(SumFrom(x, 1, i), Int2Val(i))
        ELSE Div(SumFrom(x, i - w + 1, i), Int2Val(w))]

\* Series.rolling(window=w).mean(): NaN until w values exist
RollingMean(x, w) ==
    [i \in 1..Len(x) |->
        IF i < w THEN NaN ELSE Div(SumFrom(x, i - w + 1, i), Int2Val(w))]

\* Series.diff()
Diff(x) == [i \in 1..Len(x) |-> IF i = 1 THEN NaN ELSE Sub(x[i], x[i - 1])]

\* 100 - 100/(1 + gain/loss) over simple rolling means of the deltas
Rsi(x, period) ==
    LET delta == Diff(x)
        up    == [i \in 1..Len(x) |->
                    IF NumLt(Int2Val(0), delta[i]) THEN delta[i] ELSE Int2Val(0)]
        down  == [i \in 1..Len(x) |->
                    IF NumLt(delta[i], Int2Val(0)) THEN Neg(delta[i]) ELSE Int2Val(0)]
        gain  == RollingMean(up, period)
        loss  == RollingMean(down, period)
    IN  [i \in 1..Len(x) |->
            Sub(Int2Val(100),
                Div(Int2Val(100), Add(Int2Val(1), Div(gain[i], loss[i]))))]

period_of(ind) ==
    LET params == IF "params" \in DOMAIN ind THEN ind.params ELSE <<>>
    IN  IF "period" \in DOMAIN params THEN params.period ELSE DefaultPeriod

apply_indicator(df, ind) ==
    LET ind_type == Lower(ind.type)
        period   == period_of(ind)
        close    == Column(df, "close")
    IN  CASE ind_type = "ema" -> WithColumn(df, ind.id, EwmMean(close, period))
          [] ind_type = "sma" -> WithColumn(df, ind.id, RollingMean(close, period))
          [] ind_type = "rsi" -> WithColumn(df, ind.id, Rsi(close, period))
          [] OTHER -> df

RECURSIVE apply_indicators(_, _, _)
apply_indicators(df, indicators, k) ==
    IF k > Len(indicators) THEN df
    ELSE apply_indicators(apply_indicator(df, indicators[k]), indicators, k + 1)

calculate_indicators(symbol, df, indicators) ==
    IF df = <<>> THEN df ELSE apply_indicators(df, indicators, 1)

--------------------------------------------------------------------------
(* ConditionEvaluator: StrategyManager._check_condition_group and          *)
(* _evaluate_single_condition.  A condition is the JSON dict itself: a     *)
(* function with the keys "and", "or", or "operator"/"left"/"right"; <<>>  *)
(* is the empty dict.  An evaluation yields "T", "F", or "E" when Python   *)
(* raises (an ordering comparison of a number with a str).                 *)

Bool3(b) == IF b THEN "T" ELSE "F"

\* curr[key] if key in curr else key
Resolve(key, row) == IF IsStr(key) /\ key.s \in DOMAIN row THEN row[key.s] ELSE key

\* a < b, a > b, a <= b, a >= b raise TypeError when one side is a str;
\* two strs never meet in the strategies of this model
Gt3_or_equal(a, b) == IF IsStr(a) \/ IsStr(b) THEN "E" ELSE Bool3(NumLe(b, a))
Gt3(a, b) == IF IsStr(a) \/ IsStr(b) THEN "E" ELSE Bool3(NumLt(b, a))
Lt3(a, b) == IF IsStr(a) \/ IsStr(b) THEN "E" ELSE Bool3(NumLt(a, b))
Le3_strict(a, b) == IF IsStr(a) \/ IsStr(b) THEN "E" ELSE Bool3(NumLt(a, b))
Le3(a, b) == IF IsStr(a) \/ IsStr(b) THEN "E" ELSE Bool3(NumLe(a, b))
Ge3(a, b) == IF IsStr(a) \/ IsStr(b) THEN "E" ELSE Bool3(NumLe(b, a))
Eq3(a, b) == IF IsStr(a) \/ IsStr(b) THEN Bool3(a = b) ELSE Bool3(NumEq(a, b))

\* Python's `x and y` on two comparisons: y is evaluated only when x is true
And3(x, y) == IF x = "T" THEN y ELSE x

\* df.iloc[-1] raises IndexError on an empty frame
evaluate_single_condition(cond, df) ==
    IF DOMAIN cond = {} THEN "F"
    ELSE IF df = <<>> THEN "E"
    ELSE LET op         == cond.operator
             left_key   == cond.left
             right_key  == cond.right
             curr       == df[Len(df)]
             prev       == IF Len(df) > 1 THEN df[Len(df) - 1] ELSE curr
             left_val   == Resolve(left_key, curr)
             right_val  == Resolve(right_key, curr)
             prev_left  == Resolve(left_key, prev)
             prev_right == Resolve(right_key, prev)
         IN  CASE op = ">"  -> Gt3(left_val, right_val)
               [] op = "<"  -> Lt3(left_val, right_val)
               [] op = "==" -> Eq3(left_val, right_val)
               [] op = "cross_over" ->
                      And3(Le3(prev_left, prev_right), Gt3(left_val, right_val))
               [] op = "cross_under" ->
                      And3(Ge3(prev_left, prev_right), Lt3(left_val, right_val))
               [] OTHER -> "F"

IsGroup(c) == "and" \in DOMAIN c \/ "or" \in DOMAIN c

RECURSIVE check_condition_group(_, _)
RECURSIVE all_from(_, _, _)
RECURSIVE any_from(_, _, _)

\* a child that is a group, taken for a leaf: it has no operator
eval_child_flat(c, df) ==
    IF IsGroup(c) THEN "F" ELSE evaluate_single_condition(c, df)

eval_child(c, df) ==
    IF IsGroup(c) THEN check_condition_group(c, df)
    ELSE evaluate_single_condition(c, df)

\* all(...) over the children from the k-th on: stops at the first false one
all_from(cs, df, k) ==
    IF k > Len(cs) THEN "T"
    ELSE LET r == eval_child(cs[k], df)
         IN  IF r = "T" THEN all_from(cs, df, k + 1) ELSE r

\* any(...) over the children from the k-th on: stops at the first true one
any_from(cs, df, k) ==
    IF k > Len(cs) THEN "F"
    ELSE LET r == eval_child(cs[k], df)
         IN  IF r = "F" THEN any_from(cs, df, k + 1) ELSE r

check_condition_group(group, df) ==
    IF "and" \in DOMAIN group THEN all_from(group["and"], df, 1)
    ELSE IF "or" \in DOMAIN group THEN any_from(group["or"], df, 1)
    ELSE evaluate_single_condition(group, df)

Get(dict, key, default) == IF key \in DOMAIN dict THEN dict[key] ELSE default

\* StrategyManager.evaluate_strategy: None on an empty frame, else the two
\* signals; raised when a condition raised (nothing is returned then)
NoResult == [none |-> TRUE]

\* the signals dict of an evaluation of both trees on df
signals_on(strategy, df) ==
    LET df2      == calculate_indicators(strategy.symbol, df,
                                         Get(strategy, "indicators", <<>>))
        is_entry == check_condition_group(Get(strategy, "entry_conditions", <<>>), df2)
        is_exit  == check_condition_group(Get(strategy, "exit_conditions", <<>>), df2)
    IN  [symbol       |-> strategy.symbol,
         entry_signal |-> is_entry = "T",
         exit_signal  |-> is_exit = "T",
         raised       |-> is_entry = "E" \/ is_exit = "E"]

\* evaluate_strategy with no `if df.empty: return None`
evaluate_strategy_unguarded(strategy, df) == signals_on(strategy, df)

evaluate_strategy(strategy, df) ==
    IF df = <<>> THEN NoResult
    ELSE signals_on(strategy, df)

--------------------------------------------------------------------------
(* TradeLifecycleManager: OrderManager.  Trade dicts are objects: `trades`  *)
(* is the heap of every trade dict created so far (a trade's identity is   *)
(* its index), active_trades maps a symbol to its trade (0: no entry) and  *)
(* history lists the closed ones.  The operators take and return the       *)
(* manager's state om = [active_trades, trades, history].                  *)

DefaultStopLossPerc == 1
DefaultTargetPerc == 2
DefaultQty == 1

risk_of(config) == Get(config, "risk_management", <<>>)
sl_perc_of(config) == Get(risk_of(config), "stop_loss_perc", Int2Val(DefaultStopLossPerc))
target_perc_of(config) == Get(risk_of(config), "target_perc", Int2Val(DefaultTargetPerc))

\* variant: the stop-loss level on the wrong side of the entry price
sl_price_above(entry_price, sl_perc) ==
    Mul(entry_price, Add(Int2Val(1), Div(sl_perc, Int2Val(100))))

\* entry_price * (1 - sl_perc / 100)
sl_price_for(entry_price, sl_perc) ==
    Mul(entry_price, Sub(Int2Val(1), Div(sl_perc, Int2Val(100))))

\* entry_price * (1 + target_perc / 100)
target_price_for(entry_price, target_perc) ==
    Mul(entry_price, Add(Int2Val(1), Div(target_perc, Int2Val(100))))

\* `if not self.paper_trading: token = load_access_token(); if token:`
dispatches(om) == ~om.paper_trading /\ om.access_token

Buy == 1
Sell == 0 - 1

\* a broker that raises: the exception leaves place_order and, uncaught in
\* enter_trade and exit_trade, the transition
place_order_raises(om, symbol, qty, side) ==
    IF om.broker_up THEN [s |-> "ok", id |-> Len(om.orders) + 1]
                    ELSE [s |-> "raised", id |-> 0]

\* fyers_auth.place_order(token, order_data): the response of the broker, or
\* the error dict place_order returns when the broker call raises
place_order(om, symbol, qty, side) ==
    IF om.broker_up THEN [s |-> "ok", id |-> Len(om.orders) + 1]
                    ELSE [s |-> "error", id |-> 0]

\* the orders handed to place_order so far, with the call of this transition
\* (id: the trade the order is sent for)
with_order(om, id, symbol, qty, side) ==
    IF dispatches(om)
    THEN [om EXCEPT !.orders = Append(@, [trade |-> id, symbol |-> symbol, qty |-> qty,
                                          side |-> side,
                                          s |-> place_order(om, symbol, qty, side).s])]
    ELSE om

enter_trade(om, symbol, entry_price, config, now) ==
    LET base  == [symbol       |-> symbol,
                  entry_price  |-> entry_price,
                  entry_time   |-> now,
                  sl_price     |-> sl_price_for(entry_price, sl_perc_of(config)),
                  target_price |-> target_price_for(entry_price, target_perc_of(config)),
                  status       |-> "OPEN",
                  qty          |-> DefaultQty]
        trade == IF dispatches(om)
                 THEN ("fyers_order_id" :> place_order(om, symbol, base.qty, Buy).id) @@ base
                 ELSE base
        sent  == with_order(om, Len(om.trades) + 1, symbol, base.qty, Buy)
    IN  IF dispatches(om) /\ place_order(om, symbol, base.qty, Buy).s = "raised"
        THEN sent
        ELSE [sent EXCEPT !.trades = Append(@, trade),
                          !.active_trades[symbol] = Len(om.trades) + 1]

\* variant: the result of a short position
live_pnl_short(trade, exit_price) ==
    Mul(Sub(trade.entry_price, exit_price), Int2Val(trade.qty))

\* (exit_price - entry_price) * qty
live_pnl(trade, exit_price) ==
    Mul(Sub(exit_price, trade.entry_price), Int2Val(trade.qty))

\* an exit that pops and closes the trade and never appends it to the history
exit_trade_unrecorded(om, symbol, exit_price, reason, now) ==
    LET id == om.active_trades[symbol]
    IN  IF id = 0 THEN om
        ELSE [om EXCEPT !.active_trades[symbol] = 0,
                        !.trades[id] = [@ EXCEPT !.status = "CLOSED"]]

exit_trade(om, symbol, exit_price, reason, now) ==
    LET id == om.active_trades[symbol]
    IN  IF id = 0 THEN om
        ELSE LET trade  == om.trades[id]
                 closed == [exit_price  |-> exit_price,
                            exit_time   |-> now,
                            exit_reason |-> reason,
                            pnl         |-> live_pnl(trade, exit_price)]
                           @@ [trade EXCEPT !.status = "CLOSED"]
                 sent   == with_order(om, id, symbol, trade.qty, Sell)
             IN  IF dispatches(om) /\ place_order(om, symbol, trade.qty, Sell).s = "raised"
                 THEN [sent EXCEPT !.active_trades[symbol] = 0,
                                   !.trades[id] = closed]
                 ELSE [sent EXCEPT !.active_trades[symbol] = 0,
                                   !.trades[id] = closed,
                                   !.history = Append(@, id)]

check_risk_management(om, symbol, current_price, now) ==
    LET id == om.active_trades[symbol]
    IN  IF id = 0 THEN om
        ELSE IF NumLe(current_price, om.trades[id].sl_price)
             THEN exit_trade(om, symbol, current_price, "Stop Loss Hit", now)
        ELSE IF NumLe(om.trades[id].target_price, current_price)
             THEN exit_trade(om, symbol, current_price, "Target Hit", now)
        ELSE om

\* variant: an entry signal, taken or not, suppresses the exit signal
execute_signal_entry_first(om, symbol, signal_data, current_price, strategy_config, now) ==
    IF signal_data.entry_signal
    THEN IF om.active_trades[symbol] = 0
         THEN enter_trade(om, symbol, current_price, strategy_config, now)
         ELSE om
    ELSE IF signal_data.exit_signal /\ om.active_trades[symbol] # 0
    THEN exit_trade(om, symbol, current_price, "Strategy Signal", now)
    ELSE om

\* variant: enters on every entry signal, whether or not a trade is open
execute_signal_noguard(om, symbol, signal_data, current_price, strategy_config, now) ==
    IF signal_data.entry_signal
    THEN enter_trade(om, symbol, current_price, strategy_config, now)
    ELSE IF signal_data.exit_signal /\ om.active_trades[symbol] # 0
    THEN exit_trade(om, symbol, current_price, "Strategy Signal", now)
    ELSE om

execute_signal(om, symbol, signal_data, current_price, strategy_config, now) ==
    IF signal_data.entry_signal /\ om.active_trades[symbol] = 0
    THEN enter_trade(om, symbol, current_price, strategy_config, now)
    ELSE IF signal_data.exit_signal /\ om.active_trades[symbol] # 0
    THEN exit_trade(om, symbol, current_price, "Strategy Signal", now)
    ELSE om

--------------------------------------------------------------------------
(* StrategyManager.on_tick *)

SeriesWindow == 100

\* DataFrame.head(100): the first bars are the ones kept
TailWindow_head(df) ==
    IF Len(df) > SeriesWindow THEN SubSeq(df, 1, SeriesWindow) ELSE df

\* DataFrame.tail(100)
TailWindow(df) ==
    IF Len(df) > SeriesWindow THEN SubSeq(df, Len(df) - SeriesWindow + 1, Len(df)) ELSE df

\* pd.concat([df, new_row], ignore_index=True).tail(100)
append_price(df, current_price) == TailWindow(Append(df, [close |-> current_price]))

\* the loop over active_strategies from the k-th on; an exception (a KeyError
\* at strategy['symbol'], or one raised by an evaluation) ends the call with
\* what was done so far
RECURSIVE run_strategies(_, _, _, _, _, _, _)
run_strategies(om, strategies, k, symbol, df, current_price, now) ==
    IF k > Len(strategies) THEN om
    ELSE IF "symbol" \notin DOMAIN strategies[k] THEN om
    ELSE IF strategies[k].symbol # symbol
         THEN run_strategies(om, strategies, k + 1, symbol, df, current_price, now)
    ELSE LET result == evaluate_strategy(strategies[k], df)
         IN  IF result = NoResult
             THEN run_strategies(om, strategies, k + 1, symbol, df, current_price, now)
             ELSE IF result.raised THEN om
             ELSE run_strategies(
                      execute_signal(om, symbol, result, current_price, strategies[k], now),
                      strategies, k + 1, symbol, df, current_price, now)

\* on_tick raises: the loop from the k-th strategy on reaches a dict with no
\* 'symbol' key, or an evaluation that raises (nothing in on_tick catches)
RECURSIVE on_tick_raises(_, _, _, _)
on_tick_raises(strategies, k, symbol, df) ==
    IF k > Len(strategies) THEN FALSE
    ELSE IF "symbol" \notin DOMAIN strategies[k] THEN TRUE
    ELSE IF strategies[k].symbol # symbol THEN on_tick_raises(strategies, k + 1, symbol, df)
    ELSE LET result == evaluate_strategy(strategies[k], df)
         IN  IF result = NoResult THEN on_tick_raises(strategies, k + 1, symbol, df)
             ELSE result.raised \/ on_tick_raises(strategies, k + 1, symbol, df)

\* an on_tick that is over once the risk check has closed the trade
on_tick_om_risk_only(om, strategies, symbol, df, current_price, now) ==
    LET checked == check_risk_management(om, symbol, current_price, now)
    IN  IF checked # om THEN checked
        ELSE run_strategies(checked, strategies, 1, symbol, df, current_price, now)

\* an on_tick whose risk check goes over the trades of the other symbols
\* too, with the price of this tick
on_tick_om_all_symbols(om, strategies, symbol, df, current_price, now) ==
    LET other   == CHOOSE s \in DOMAIN om.active_trades : s # symbol
        checked == check_risk_management(om, other, current_price, now)
    IN  run_strategies(check_risk_management(checked, symbol, current_price, now),
                       strategies, 1, symbol, df, current_price, now)

\* the manager's state after on_tick: risk check first, then the signals of
\* every strategy bound to the symbol, evaluated on the updated series df
on_tick_om(om, strategies, symbol, df, current_price, now) ==
    run_strategies(check_risk_management(om, symbol, current_price, now),
                   strategies, 1, symbol, df, current_price, now)

--------------------------------------------------------------------------
(* The strategies of the model (the JSON files of the strategies           *)
(* directory), the symbols and the prices the ticks and bars draw from.    *)

Leaf(op, left, right) == [operator |-> op, left |-> left, right |-> right]
AndOf(children) == "and" :> children
OrOf(children) == "or" :> children
Indicator(id, type, period) == [id |-> id, type |-> type, params |-> [period |-> period]]

\* an EMA crossover on symbol A, of the shape tests/test_orders.py drives
EmaCross ==
    [name             |-> "EMA Cross",
     symbol           |-> "A",
     indicators       |-> << Indicator("ema_fast", "EMA", 3), Indicator("ema_slow", "EMA", 7) >>,
     entry_conditions |-> AndOf(<< Leaf("cross_over", Str("ema_fast"), Str("ema_slow")) >>),
     exit_conditions  |-> AndOf(<< Leaf("cross_under", Str("ema_fast"), Str("ema_slow")) >>),
     risk_management  |-> [stop_loss_perc |-> Int2Val(1), target_perc |-> Int2Val(2)]]

\* price levels on symbol A, with no risk_management (the defaults apply)
Level ==
    [name             |-> "Level",
     symbol           |-> "A",
     indicators       |-> <<>>,
     entry_conditions |-> Leaf(">", Str("close"), Int2Val(99)),
     exit_conditions  |-> OrOf(<< Leaf("==", Str("close"), Int2Val(100)),
                                  Leaf(">", Str("close"), Int2Val(101)) >>)]

\* price against its SMA on symbol B, with a half-percent stop
SmaTrend ==
    [name             |-> "SMA Trend",
     symbol           |-> "B",
     indicators       |-> << Indicator("sma2", "sma", 2) >>,
     entry_conditions |-> AndOf(<< Leaf(">", Str("close"), Str("sma2")),
                                   Leaf(">", Str("close"), Int2Val(99)) >>),
     exit_conditions  |-> Leaf("<", Str("close"), Str("sma2")),
     risk_management  |-> [stop_loss_perc |-> Rat(1, 2)]]

Symbols == {"A", "B"}
Prices == {Int2Val(99), Int2Val(100), Int2Val(102)}
Reasons == {"Stop Loss Hit", "Target Hit", "Strategy Signal"}

MaxOps == 3

\* historical bars: a flat warm-up at 100 followed by up to MaxTail free bars,
\* or no bar at all
ShortWarm == 18
LongWarm == 50
MaxTail == 3

Frame(closes) == [i \in 1..Len(closes) |-> [close |-> closes[i]]]

RECURSIVE SeqsUpTo(_, _)
SeqsUpTo(S, n) ==
    IF n = 0 THEN {<<>>}
    ELSE LET shorter == SeqsUpTo(S, n - 1)
         IN  shorter \cup {Append(q, x) : q \in {r \in shorter : Len(r) = n - 1}, x \in S}

BarInputs ==
    {Frame([i \in 1..w |-> Int2Val(100)] \o tail) :
        w \in {ShortWarm, LongWarm}, tail \in SeqsUpTo(Prices, MaxTail)}
    \cup {<<>>}

\* parameter overrides of a backtest request: none, or a faster ema_fast
OverrideInputs == {<<>>, "ema_fast" :> [period |-> 1]}

--------------------------------------------------------------------------
(* BacktestSimulator: BacktestEngine.run_backtest.  The simulated trade    *)
(* slot holds <<>> (None) or <<trade>>; bar indices are Python's, from 0.  *)

MinBars == 20
WarmupBars == 50

Min(a, b) == IF a < b THEN a ELSE b

apply_overrides(config, overrides) ==
    IF DOMAIN overrides = {} THEN config
    ELSE [config EXCEPT !.indicators =
            [k \in 1..Len(config.indicators) |->
                LET ind == config.indicators[k]
                IN  IF ind.id \in DOMAIN overrides
                    THEN [ind EXCEPT !.params = overrides[ind.id] @@ ind.params]
                    ELSE ind]]

\* df.iloc[:i+1]
visible(df, i) == SubSeq(df, 1, i + 1)

\* exit_price - entry_price
bt_pnl(trade, exit_price) == Sub(exit_price, trade.entry_price)

bt_close(st, exit_price, reason, i) ==
    LET trade  == st.active_trade[1]
        closed == [exit_price  |-> exit_price,
                   exit_time   |-> i,
                   exit_reason |-> reason,
                   pnl         |-> bt_pnl(trade, exit_price)] @@ trade
    IN  [active_trade |-> <<>>, trades |-> Append(st.trades, closed)]

\* the risk management check of one bar
bt_risk_check(st, current_price, i) ==
    IF st.active_trade = <<>> THEN st
    ELSE IF NumLe(current_price, st.active_trade[1].sl_price)
         THEN bt_close(st, st.active_trade[1].sl_price, "Stop Loss", i)
    ELSE IF NumLe(st.active_trade[1].target_price, current_price)
         THEN bt_close(st, st.active_trade[1].target_price, "Target Hit", i)
    ELSE st

bt_enter(st, config, current_price, i) ==
    [st EXCEPT !.active_trade =
        << [symbol       |-> config.symbol,
            entry_price  |-> current_price,
            entry_time   |-> i,
            sl_price     |-> sl_price_for(current_price, sl_perc_of(config)),
            target_price |-> target_price_for(current_price, target_perc_of(config)),
            status       |-> "CLOSED"] >>]

\* a signal check with two ifs: the exit signal of the bar is applied to the
\* trade its entry signal has just opened
bt_signal_check_both(st, result, config, current_price, i) ==
    LET entered == IF result.entry_signal /\ st.active_trade = <<>>
                   THEN bt_enter(st, config, current_price, i)
                   ELSE st
    IN  IF result.exit_signal /\ entered.active_trade # <<>>
        THEN bt_close(entered, current_price, "Strategy Signal", i)
        ELSE entered

\* the strategy signal check of one bar
bt_signal_check(st, result, config, current_price, i) ==
    IF result.entry_signal /\ st.active_trade = <<>>
    THEN bt_enter(st, config, current_price, i)
    ELSE IF result.exit_signal /\ st.active_trade # <<>>
    THEN bt_close(st, current_price, "Strategy Signal", i)
    ELSE st

\* variant: the decision of bar i is taken on all the rows
bt_curr_df_all(df, i) == df

\* the rows the decision of bar i is taken on
bt_curr_df(df, i) == visible(df, i)

\* variant: applies the strategy signal before the risk check
bt_bar_signal_first(config, df, i, st) ==
    LET curr_df       == bt_curr_df(df, i)
        current_price == curr_df[Len(curr_df)].close
        result        == evaluate_strategy(config, curr_df)
    IN  bt_risk_check(bt_signal_check(st, result, config, current_price, i),
                      current_price, i)

\* one iteration of the loop over the bars, for bar index i
bt_bar(config, df, i, st) ==
    LET curr_df       == bt_curr_df(df, i)
        current_price == curr_df[Len(curr_df)].close
        result        == evaluate_strategy(config, curr_df)
    IN  bt_signal_check(bt_risk_check(st, current_price, i),
                        result, config, current_price, i)

bt_bar_raises(config, df, i) == evaluate_strategy(config, bt_curr_df(df, i)).raised

\* the summary with the win rate as a fraction of one
bt_summary_ratio(config, ts) ==
    LET winners == {k \in 1..Len(ts) : NumLt(Int2Val(0), ts[k].pnl)}
    IN  [strategy_name |-> config.name,
         symbol        |-> config.symbol,
         total_pnl     |-> SumFrom([k \in 1..Len(ts) |-> ts[k].pnl], 1, Len(ts)),
         win_rate      |-> IF ts # <<>>
                           THEN Div(Int2Val(Cardinality(winners)), Int2Val(Len(ts)))
                           ELSE Int2Val(0),
         total_trades  |-> Len(ts)]

bt_summary(config, ts) ==
    LET winners == {k \in 1..Len(ts) : NumLt(Int2Val(0), ts[k].pnl)}
    IN  [strategy_name |-> config.name,
         symbol        |-> config.symbol,
         total_pnl     |-> SumFrom([k \in 1..Len(ts) |-> ts[k].pnl], 1, Len(ts)),
         win_rate      |-> IF ts # <<>>
                           THEN Mul(Div(Int2Val(Cardinality(winners)), Int2Val(Len(ts))),
                                    Int2Val(100))
                           ELSE Int2Val(0),
         total_trades  |-> Len(ts)]

\* the summary metrics computed on the empty trade list with no guard
bt_summary_unguarded(config) ==
    [strategy_name |-> config.name, symbol |-> config.symbol,
     total_pnl |-> Int2Val(0), win_rate |-> Div(Int2Val(0), Int2Val(0)), total_trades |-> 0]

bt_zero_summary(config) ==
    [strategy_name |-> config.name, symbol |-> config.symbol,
     total_pnl |-> Int2Val(0), win_rate |-> Int2Val(0), total_trades |-> 0]

\* the trades list of a run that closes the trade still open at its entry
\* price when the bars run out
bt_trades_with_open(st) ==
    IF st.active_trade = <<>> THEN st.trades
    ELSE Append(st.trades,
                [exit_price  |-> st.active_trade[1].entry_price,
                 exit_time   |-> st.active_trade[1].entry_time,
                 exit_reason |-> "End Of Data",
                 pnl         |-> Int2Val(0)] @@ st.active_trade[1])

\* "trades": trades: the closed ones; the local active_trade is dropped
bt_trades(st) == st.trades

\* a loop with no warm-up skip
bt_start_idx_zero(df) == 0

bt_start_idx(df) == Min(WarmupBars, Len(df) - 1)

\* `for i in range(start_idx, len(df))` run to its end from bar i
RECURSIVE bt_loop(_, _, _, _)
bt_loop(config, df, i, st) ==
    IF i >= Len(df) THEN [raised |-> FALSE, st |-> st]
    ELSE IF bt_bar_raises(config, df, i) THEN [raised |-> TRUE, st |-> st]
    ELSE LET next == bt_bar(config, df, i, st)
         IN  IF Len(next.trades) >= 0 THEN bt_loop(config, df, i + 1, next)
             ELSE [raised |-> TRUE, st |-> st]

\* one whole run_backtest call, with nothing else running
run_backtest(strategy_config, df, overrides) ==
    LET backtest_config == apply_overrides(strategy_config, overrides)
        df2 == calculate_indicators(backtest_config.symbol, df, backtest_config.indicators)
        end == bt_loop(backtest_config, df2, bt_start_idx(df2),
                       [active_trade |-> <<>>, trades |-> <<>>])
    IN  IF Len(df2) < MinBars
        THEN [summary    |-> bt_zero_summary(backtest_config),
              trades     |-> <<>>,
              parameters |-> overrides]
        ELSE IF end.raised THEN [raised |-> TRUE]
        ELSE [summary    |-> bt_summary(backtest_config, bt_trades(end.st)),
              trades     |-> bt_trades(end.st),
              parameters |-> overrides]

--------------------------------------------------------------------------
(* State *)

VARIABLES
    active_strategies,  \* StrategyManager.active_strategies
    data_frames,        \* StrategyManager.data_frames: symbol -> closes
    active_trades,      \* OrderManager.active_trades: symbol -> trade (0: none)
    trades,             \* every trade dict created by the OrderManager
    history,            \* OrderManager.history: the closed trades, oldest first
    clock,              \* datetime.now(), one unit per call
    last,               \* the last call and its arguments
    paper_trading,      \* OrderManager.paper_trading
    access_token,       \* whether load_access_token() returns a token
    broker_up,          \* whether the broker accepts an order
    orders,             \* the order_data handed to place_order, oldest first
    bt_pc,              \* run_backtest: "idle", "loop", "raised" or "done"
    bt_in,              \* its arguments: strategy_config, df, overrides
    bt_config,          \* backtest_config
    bt_df,              \* df, with the indicator columns
    bt_i,               \* the loop index i
    bt_st,              \* [active_trade, trades] of the run
    bt_result,          \* the returned dict (<<>> until the run returns)
    bt2,                \* a second run_backtest call: the same locals, as a record
    db_runs,            \* the committed rows of backtest_runs, a set
    db_trades,          \* the committed rows of backtest_trades, a set
    api,                \* the /backtest/run request: position, results, run_id, response
    load,               \* load_strategies: position, the files of the directory, next file
    seen,               \* what the last reader of active_strategies read
    ev                  \* an evaluator call: its arguments and what it returned

brokerVars == <<paper_trading, access_token, broker_up, orders>>
liveVars == <<active_strategies, data_frames, active_trades, trades, history, clock, last,
              brokerVars>>
loadVars == <<load, seen>>
storeVars == <<db_runs, db_trades, api, loadVars, ev>>
btVars == <<bt_pc, bt_in, bt_config, bt_df, bt_i, bt_st, bt_result, bt2, storeVars>>
vars == <<liveVars, btVars>>

OM == [active_trades |-> active_trades, trades |-> trades, history |-> history,
       paper_trading |-> paper_trading, access_token |-> access_token,
       broker_up |-> broker_up, orders |-> orders]

Call(op, symbol, price, entry, exit, reason) ==
    [op |-> op, symbol |-> symbol, price |-> price,
     entry_signal |-> entry, exit_signal |-> exit, reason |-> reason]

SetOM(om) ==
    /\ active_trades' = om.active_trades
    /\ trades' = om.trades
    /\ history' = om.history
    /\ orders' = om.orders
    /\ UNCHANGED <<paper_trading, access_token, broker_up>>

\* the state after construction, with the given strategies loaded
\* the locals of a run_backtest call that has not started
run_idle == [pc |-> "idle", in |-> <<>>, config |-> <<>>, df |-> <<>>, i |-> 0,
             st |-> [active_trade |-> <<>>, trades |-> <<>>], result |-> <<>>]

\* the /backtest/run request before it arrives
api_idle == [pc |-> "idle", results |-> <<>>, run_id |-> 0, response |-> <<>>,
             served |-> 0, store_failed |-> FALSE]

\* OrderManager(paper_trading=True), no order sent yet
InitPaper ==
    /\ paper_trading = TRUE
    /\ access_token = FALSE
    /\ broker_up = TRUE
    /\ orders = <<>>

\* an empty database, no request
InitStoreEmpty ==
    /\ db_runs = {}
    /\ db_trades = {}
    /\ api = api_idle

\* no load_strategies call in progress
load_idle == [pc |-> "idle", files |-> <<>>, k |-> 1, old |-> <<>>, n |-> 0]

\* no reader of active_strategies has run
seen_none == [reader |-> "none", strategies |-> <<>>, raised |-> FALSE, n |-> 0]

\* no evaluator call made
ev_idle == [pc |-> "idle"]

InitRest ==
    /\ seen = seen_none
    /\ data_frames = [s \in Symbols |-> <<>>]
    /\ active_trades = [s \in Symbols |-> 0]
    /\ trades = <<>>
    /\ history = <<>>
    /\ clock = 0
    /\ last = Call("init", "", Int2Val(0), FALSE, FALSE, "")
    /\ bt_pc = "idle"
    /\ bt_in = <<>>
    /\ bt_config = <<>>
    /\ bt_df = <<>>
    /\ bt_i = 0
    /\ bt_st = [active_trade |-> <<>>, trades |-> <<>>]
    /\ bt_result = <<>>
    /\ bt2 = run_idle

InitBase(strategies) ==
    /\ active_strategies = strategies
    /\ load = load_idle
    /\ ev = ev_idle
    /\ InitRest

InitWith(strategies) == InitBase(strategies) /\ InitPaper /\ InitStoreEmpty

Init == InitWith(<< EmaCross, Level, SmaTrend >>)

(* The service is single-threaded and a call runs to its end.  A behaviour *)
(* is a live session (calls on the two managers) or one backtest request,  *)
(* whose loop is followed bar by bar.                                      *)

\* strategy_manager.on_tick({"symbol": symbol, "last_price": current_price})
Tick(symbol, current_price) ==
    /\ LET df == append_price(data_frames[symbol], current_price)
       IN  /\ data_frames' = [data_frames EXCEPT ![symbol] = df]
           /\ SetOM(on_tick_om(OM, active_strategies, symbol, df, current_price, clock + 1))
    /\ clock' = clock + 1
    /\ last' = Call("on_tick", symbol, current_price, FALSE, FALSE, "")
    /\ UNCHANGED <<active_strategies, btVars>>

OnTick(symbol, current_price) ==
    /\ bt_pc = "idle"
    /\ clock < MaxOps
    /\ Tick(symbol, current_price)

\* order_manager.check_risk_management(symbol, current_price)
CheckRiskManagement(symbol, current_price) ==
    /\ bt_pc = "idle"
    /\ clock < MaxOps
    /\ SetOM(check_risk_management(OM, symbol, current_price, clock + 1))
    /\ clock' = clock + 1
    /\ last' = Call("check_risk_management", symbol, current_price, FALSE, FALSE, "")
    /\ UNCHANGED <<active_strategies, data_frames, btVars>>

\* order_manager.execute_signal(symbol, signal_data, current_price, strategy)
ExecuteSignal(symbol, entry, exit, current_price, k) ==
    /\ bt_pc = "idle"
    /\ clock < MaxOps
    /\ active_strategies[k].symbol = symbol
    /\ SetOM(execute_signal(OM, symbol, [entry_signal |-> entry, exit_signal |-> exit],
                            current_price, active_strategies[k], clock + 1))
    /\ clock' = clock + 1
    /\ last' = Call("execute_signal", symbol, current_price, entry, exit, "")
    /\ UNCHANGED <<active_strategies, data_frames, btVars>>

\* order_manager.exit_trade(symbol, exit_price, reason)
ExitTrade(symbol, exit_price, reason) ==
    /\ bt_pc = "idle"
    /\ clock < MaxOps
    /\ SetOM(exit_trade(OM, symbol, exit_price, reason, clock + 1))
    /\ clock' = clock + 1
    /\ last' = Call("exit_trade", symbol, exit_price, FALSE, FALSE, reason)
    /\ UNCHANGED <<active_strategies, data_frames, btVars>>

\* run_backtest(strategy_config, df, overrides), up to the loop
\* what _apply_overrides leaves in the dict the caller passed: config.copy(),
\* ind.copy() and ind['params'].copy() take the writes, the caller's dict none
overrides_in_place(strategy_config, overrides) == apply_overrides(strategy_config, overrides)

caller_config(strategy_config, overrides) == strategy_config

\* the strategy list after a run_backtest call on one of its dicts (the endpoint
\* passes the dict found by name in strategy_manager.active_strategies)
after_call(strategies, strategy_config, overrides) ==
    [k \in 1..Len(strategies) |->
        IF strategies[k] = strategy_config
        THEN caller_config(strategy_config, overrides)
        ELSE strategies[k]]

BtStart(strategy_config, df, overrides) ==
    /\ bt_pc = "idle"
    /\ LET backtest_config == apply_overrides(strategy_config, overrides)
           df2 == calculate_indicators(backtest_config.symbol, df, backtest_config.indicators)
       IN  /\ bt_in' = [strategy_config |-> strategy_config, df |-> df, overrides |-> overrides]
           /\ bt_config' = backtest_config
           /\ bt_df' = df2
           /\ bt_st' = [active_trade |-> <<>>, trades |-> <<>>]
           /\ IF Len(df2) < MinBars
              THEN /\ bt_pc' = "done"
                   /\ bt_i' = 0
                   /\ bt_result' = [summary    |-> bt_zero_summary(backtest_config),
                                    trades     |-> <<>>,
                                    parameters |-> overrides]
              ELSE /\ bt_pc' = "loop"
                   /\ bt_i' = bt_start_idx(df2)
                   /\ bt_result' = <<>>
    /\ active_strategies' = after_call(active_strategies, strategy_config, overrides)
    /\ UNCHANGED <<data_frames, active_trades, trades, history, clock, last, brokerVars,
                   bt2, storeVars>>

\* one iteration of `for i in range(start_idx, len(df))`
BtBar ==
    /\ bt_pc = "loop"
    /\ bt_i < Len(bt_df)
    /\ IF bt_bar_raises(bt_config, bt_df, bt_i)
       THEN /\ bt_pc' = "raised"
            /\ UNCHANGED <<bt_i, bt_st>>
       ELSE /\ bt_st' = bt_bar(bt_config, bt_df, bt_i, bt_st)
            /\ bt_i' = bt_i + 1
            /\ bt_pc' = "loop"
    /\ UNCHANGED <<liveVars, bt_in, bt_config, bt_df, bt_result, bt2, storeVars>>

\* the summary metrics and the return
BtReturn ==
    /\ bt_pc = "loop"
    /\ bt_i = Len(bt_df)
    /\ bt_pc' = "done"
    /\ bt_result' = [summary    |-> bt_summary(bt_config, bt_trades(bt_st)),
                     trades     |-> bt_trades(bt_st),
                     parameters |-> bt_in.overrides]
    /\ UNCHANGED <<liveVars, bt_in, bt_config, bt_df, bt_i, bt_st, bt2, storeVars>>

LiveNext ==
    \/ \E symbol \in Symbols, p \in Prices : OnTick(symbol, p)
    \/ \E symbol \in Symbols, p \in Prices : CheckRiskManagement(symbol, p)
    \/ \E symbol \in Symbols, p \in Prices, entry \in BOOLEAN, exit \in BOOLEAN,
          k \in 1..Len(active_strategies) : ExecuteSignal(symbol, entry, exit, p, k)
    \/ \E symbol \in Symbols, p \in Prices, reason \in Reasons : ExitTrade(symbol, p, reason)

BtNext ==
    \/ /\ bt_pc = "idle" /\ clock = 0
       /\ \E k \in 1..Len(active_strategies), df \in BarInputs,
             overrides \in OverrideInputs :
                BtStart(active_strategies[k], df, overrides)
    \/ BtBar
    \/ BtReturn

Next == LiveNext \/ BtNext

Spec == Init /\ [][Next]_vars

(* The same bars through both paths: one strategy is loaded, a backtest    *)
(* request runs it on a bar series, and the closes of that series are then *)
(* fed to on_tick one by one, as ticks of the strategy's symbol.           *)
InitOne == \E config \in {EmaCross, Level, SmaTrend} : InitWith(<< config >>)

Replay ==
    /\ bt_pc = "done"
    /\ clock < Len(bt_in.df)
    /\ Tick(bt_config.symbol, bt_in.df[clock + 1].close)

NextEq ==
    \/ /\ bt_pc = "idle" /\ clock = 0
       /\ \E df \in BarInputs : BtStart(active_strategies[1], df, <<>>)
    \/ BtBar
    \/ BtReturn
    \/ Replay

SpecEq == InitOne /\ [][NextEq]_vars

(* Requests that overlap: live ticks, two run_backtest calls and strategy  *)
(* reloads, interleaved bar by bar.                                        *)
MaxConcTicks == 1

\* one historical series: the flat warm-up, a dip and a rise
ConcBars == {Frame([i \in 1..LongWarm |-> Int2Val(100)]
                   \o << Int2Val(99), Int2Val(100), Int2Val(102) >>)}

\* what path.glob("*.json") can yield for the same directory: the two
\* strategy files in either order
StrategyDirs == {<< EmaCross, Level >>, << Level, EmaCross >>}

\* ticks of the symbols the loaded strategies trade, at a level or above it
ConcPrices == {Int2Val(100), Int2Val(102)}

\* run_backtest up to its loop, on the locals of a call
run_start(strategy_config, df, overrides) ==
    LET backtest_config == apply_overrides(strategy_config, overrides)
        df2 == calculate_indicators(backtest_config.symbol, df, backtest_config.indicators)
        r   == [run_idle EXCEPT
                  !.in = [strategy_config |-> strategy_config, df |-> df,
                          overrides |-> overrides],
                  !.config = backtest_config,
                  !.df = df2]
    IN  IF Len(df2) < MinBars
        THEN [r EXCEPT !.pc = "done",
                       !.result = [summary    |-> bt_zero_summary(backtest_config),
                                   trades     |-> <<>>,
                                   parameters |-> overrides]]
        ELSE [r EXCEPT !.pc = "loop", !.i = bt_start_idx(df2)]

\* a run whose trade list lives on the shared engine object
run_bar_shared(r) ==
    IF bt_bar_raises(r.config, r.df, r.i)
    THEN [r EXCEPT !.pc = "raised"]
    ELSE [r EXCEPT !.st = bt_bar(r.config, r.df, r.i, [@ EXCEPT !.trades = bt_st.trades]),
                   !.i = @ + 1]

\* one iteration of the loop, on the locals of a call
run_bar(r) ==
    IF bt_bar_raises(r.config, r.df, r.i)
    THEN [r EXCEPT !.pc = "raised"]
    ELSE [r EXCEPT !.st = bt_bar(r.config, r.df, r.i, @), !.i = @ + 1]

\* a result whose trade count is kept on a counter the live calls share
run_return_stamped(r) ==
    [r EXCEPT !.pc = "done",
              !.result = [summary    |-> [bt_summary(r.config, r.st.trades)
                                            EXCEPT !.total_trades = @ + clock],
                          trades     |-> r.st.trades,
                          parameters |-> r.in.overrides]]

\* the summary metrics and the return, on the locals of a call
run_return(r) ==
    [r EXCEPT !.pc = "done",
              !.result = [summary    |-> bt_summary(r.config, bt_trades(r.st)),
                          trades     |-> bt_trades(r.st),
                          parameters |-> r.in.overrides]]

ConcTick ==
    /\ clock < MaxConcTicks
    /\ \E k \in 1..Len(active_strategies), p \in ConcPrices :
            Tick(active_strategies[k].symbol, p)

Bt2Start(strategy_config, df, overrides) ==
    /\ bt2.pc = "idle"
    /\ bt2' = run_start(strategy_config, df, overrides)
    /\ active_strategies' = after_call(active_strategies, strategy_config, overrides)
    /\ UNCHANGED <<data_frames, active_trades, trades, history, clock, last, brokerVars,
                   bt_pc, bt_in, bt_config, bt_df, bt_i, bt_st, bt_result, storeVars>>

Bt2Bar ==
    /\ bt2.pc = "loop"
    /\ bt2.i < Len(bt2.df)
    /\ bt2' = run_bar(bt2)
    /\ UNCHANGED <<liveVars, bt_pc, bt_in, bt_config, bt_df, bt_i, bt_st, bt_result,
                   storeVars>>

Bt2Return ==
    /\ bt2.pc = "loop"
    /\ bt2.i = Len(bt2.df)
    /\ bt2' = run_return(bt2)
    /\ UNCHANGED <<liveVars, bt_pc, bt_in, bt_config, bt_df, bt_i, bt_st, bt_result,
                   storeVars>>

\* POST /strategies/reload: load_strategies() reads the directory again
Reload ==
    /\ \E dir \in StrategyDirs : active_strategies' = dir
    /\ active_strategies' # active_strategies
    /\ UNCHANGED <<data_frames, active_trades, trades, history, clock, last, brokerVars,
                   btVars>>

NextConc ==
    \/ ConcTick
    \/ /\ bt_pc = "idle"
       /\ \E k \in 1..Len(active_strategies), df \in ConcBars,
             overrides \in OverrideInputs :
                BtStart(active_strategies[k], df, overrides)
    \/ BtBar
    \/ BtReturn
    \/ /\ bt2.pc = "idle"
       /\ \E k \in 1..Len(active_strategies), df \in ConcBars,
             overrides \in OverrideInputs :
                Bt2Start(active_strategies[k], df, overrides)
    \/ Bt2Bar
    \/ Bt2Return
    \/ Reload

InitConc == InitWith(<< EmaCross, Level >>)

SpecConc == InitConc /\ [][NextConc]_vars

--------------------------------------------------------------------------
(* Vocabulary of the claims *)

\* the call that made the step
IsCall(op) == clock' = clock + 1 /\ last'.op = op
IsBtBar == bt_pc = "loop" /\ bt_i' = bt_i + 1

LiveIds == 1..Len(trades)
OpenTradesOf(symbol) ==
    {id \in LiveIds : trades[id].symbol = symbol /\ trades[id].status = "OPEN"}

ExitFields == {"exit_price", "exit_time", "exit_reason", "pnl"}
RiskReasonsLive == {"Stop Loss Hit", "Target Hit"}
RiskReasonsBacktest == {"Stop Loss", "Target Hit"}

HitsStop(trade, price) == NumLe(price, trade.sl_price)
HitsTarget(trade, price) == NumLe(trade.target_price, price)
Breaches(trade, price) == HitsStop(trade, price) \/ HitsTarget(trade, price)

\* the strategies bound to a symbol, and their signals on a frame
BoundTo(symbol) ==
    {k \in 1..Len(active_strategies) : active_strategies[k].symbol = symbol}
SignalsOf(k, df) == evaluate_strategy(active_strategies[k], df)

\* the bar the backtest is about to evaluate, and its signals
BtPrice == bt_df[bt_i + 1].close
BtSignals == evaluate_strategy(bt_config, visible(bt_df, bt_i))
BtSlot == bt_st.active_trade
BtClosed == bt_st.trades

--------------------------------------------------------------------------
(* C1: after any sequence of on_tick, check_risk_management,               *)
(* execute_signal and exit_trade calls, the order manager holds at most    *)
(* one OPEN trade per symbol: of all trade dicts created, at most one per  *)
(* symbol has status OPEN, and it is the one active_trades holds.          *)
C1_AtMostOneOpenTrade ==
    \A symbol \in Symbols :
        /\ Cardinality(OpenTradesOf(symbol)) <= 1
        /\ OpenTradesOf(symbol) = {id \in LiveIds : active_trades[symbol] = id}

\* an entry signal arrived for a symbol whose trade, opened earlier, is open
C1_Witness ==
    /\ last.op = "execute_signal"
    /\ last.entry_signal
    /\ active_trades[last.symbol] # 0
    /\ trades[active_trades[last.symbol]].entry_time < clock

--------------------------------------------------------------------------
(* C2: within one tick and within one backtest bar the risk check runs     *)
(* before the strategy signal is applied: when the price of the tick (bar) *)
(* breaches the stop-loss or the target of the open trade and an exit      *)
(* signal is true as well, that trade is closed in the step with the       *)
(* risk-based reason, never with "Strategy Signal".                        *)
C2_LiveStep ==
    IsCall("on_tick") =>
        LET symbol == last'.symbol
            id     == active_trades[symbol]
        IN  (/\ id # 0
             /\ Breaches(trades[id], last'.price)
             /\ \E k \in BoundTo(symbol) : SignalsOf(k, data_frames'[symbol]).exit_signal)
            => /\ trades'[id].status = "CLOSED"
               /\ trades'[id].exit_reason \in RiskReasonsLive
               /\ trades'[id].exit_time = clock'

C2_BacktestStep ==
    IsBtBar =>
        ((/\ BtSlot # <<>>
          /\ Breaches(BtSlot[1], BtPrice)
          /\ BtSignals.exit_signal)
         => /\ Len(bt_st'.trades) = Len(BtClosed) + 1
            /\ LET closed == bt_st'.trades[Len(BtClosed) + 1]
               IN  /\ closed.entry_time = BtSlot[1].entry_time
                   /\ closed.exit_reason \in RiskReasonsBacktest
                   /\ closed.exit_time = bt_i)

C2_RiskBeforeSignal == [][C2_LiveStep /\ C2_BacktestStep]_vars

\* a tick closed a trade for its risk while an exit signal was true
C2_Witness ==
    /\ last.op = "on_tick"
    /\ \E id \in LiveIds :
          /\ trades[id].symbol = last.symbol
          /\ trades[id].status = "CLOSED"
          /\ trades[id].exit_time = clock
          /\ trades[id].exit_reason \in RiskReasonsLive
    /\ \E k \in BoundTo(last.symbol) : SignalsOf(k, data_frames[last.symbol]).exit_signal

--------------------------------------------------------------------------
(* C3: for an open trade the risk check closes the trade with reason       *)
(* "Stop Loss" at a price <= sl_price, with reason "Target Hit" at a price *)
(* >= target_price, and leaves it open when neither holds; this holds for  *)
(* the live check_risk_management and for the backtest loop alike.         *)
(* The live check records "Stop Loss Hit", so the statement is violated.   *)
C3_LiveCheck ==
    (IsCall("check_risk_management") \/ IsCall("on_tick")) =>
        LET symbol == last'.symbol
            id     == active_trades[symbol]
            price  == last'.price
        IN  id # 0 =>
              IF HitsStop(trades[id], price)
              THEN trades'[id].status = "CLOSED" /\ trades'[id].exit_reason = "Stop Loss"
              ELSE IF HitsTarget(trades[id], price)
              THEN trades'[id].status = "CLOSED" /\ trades'[id].exit_reason = "Target Hit"
              ELSE IF last'.op = "check_risk_management"
              THEN trades' = trades /\ active_trades' = active_trades
              ELSE trades'[id].status = "CLOSED" => trades'[id].exit_reason = "Strategy Signal"

C3_BacktestCheck ==
    (IsBtBar /\ BtSlot # <<>>) =>
        LET closed == bt_st'.trades[Len(BtClosed) + 1]
        IN  IF HitsStop(BtSlot[1], BtPrice)
            THEN Len(bt_st'.trades) = Len(BtClosed) + 1 /\ closed.exit_reason = "Stop Loss"
            ELSE IF HitsTarget(BtSlot[1], BtPrice)
            THEN Len(bt_st'.trades) = Len(BtClosed) + 1 /\ closed.exit_reason = "Target Hit"
            ELSE \/ bt_st' = bt_st
                 \/ Len(bt_st'.trades) = Len(BtClosed) + 1
                    /\ closed.exit_reason = "Strategy Signal"

C3_RiskReasons == [][C3_LiveCheck /\ C3_BacktestCheck]_vars

--------------------------------------------------------------------------
(* C4: after a trade was opened through on_tick, an on_tick whose price is *)
(* <= the trade's sl_price closes it, removes it from active_trades, sets  *)
(* its pnl and makes it the last entry of history; a trade entered at 100  *)
(* with stop_loss_perc = 1 has sl_price = 99, and when the price reaches   *)
(* 99 it is closed with exit_reason "Stop Loss" and exit_price = 99.       *)
(* The recorded exit_reason is "Stop Loss Hit" (see C3), so the statement  *)
(* is violated.                                                            *)
C4_Step ==
    IsCall("on_tick") =>
        LET symbol == last'.symbol
            id     == active_trades[symbol]
            price  == last'.price
        IN  (/\ id # 0
             /\ last.op = "on_tick"
             /\ trades[id].entry_time = clock
             /\ HitsStop(trades[id], price))
            => /\ active_trades'[symbol] # id
               /\ trades'[id].status = "CLOSED"
               /\ "pnl" \in DOMAIN trades'[id]
               /\ history'[Len(history')] = id
               /\ (/\ NumEq(trades[id].entry_price, Int2Val(100))
                   /\ \A k \in BoundTo(symbol) :
                         NumEq(sl_perc_of(active_strategies[k]), Int2Val(1)))
                  => /\ NumEq(trades[id].sl_price, Int2Val(99))
                     /\ NumEq(price, Int2Val(99))
                        => /\ trades'[id].exit_reason = "Stop Loss"
                           /\ NumEq(trades'[id].exit_price, Int2Val(99))

C4_StopLossScenario == [][C4_Step]_vars

--------------------------------------------------------------------------
(* C5: a new trade is opened exactly when entry_signal is true and the     *)
(* symbol (live) or the simulated slot (backtest) has no open trade; the   *)
(* new trade records entry_price = the current price, sl_price =           *)
(* entry_price * (1 - stop_loss_perc/100) and target_price =               *)
(* entry_price * (1 + target_perc/100), with the percentages of the        *)
(* strategy's risk_management (1 and 2 when absent).                       *)
Hundred == Int2Val(100)

\* the levels of a trade are the ones the percentages sl and tp give
LevelsFrom(trade, price, sl, tp) ==
    /\ NumEq(trade.entry_price, price)
    /\ NumEq(Mul(trade.sl_price, Hundred), Mul(price, Sub(Hundred, sl)))
    /\ NumEq(Mul(trade.target_price, Hundred), Mul(price, Add(Hundred, tp)))

PercOf(config, key, default) ==
    IF "risk_management" \in DOMAIN config /\ key \in DOMAIN config.risk_management
    THEN config.risk_management[key]
    ELSE Int2Val(default)

LevelsOf(trade, price, config) ==
    LevelsFrom(trade, price, PercOf(config, "stop_loss_perc", 1),
                             PercOf(config, "target_perc", 2))

\* the trade dicts a step creates
Created == (Len(trades) + 1)..Len(trades')

\* no trade of the symbol older than id is open
NoneOpenBefore(id) ==
    \A j \in 1..(id - 1) :
        trades'[j].symbol = trades'[id].symbol => trades'[j].status = "CLOSED"

C5_LiveStep ==
    /\ Created # {} => IsCall("on_tick") \/ IsCall("execute_signal")
    /\ \A id \in Created :
          /\ trades'[id].symbol = last'.symbol
          /\ trades'[id].entry_time = clock'
          /\ NoneOpenBefore(id)
          /\ \E k \in BoundTo(last'.symbol) :
                /\ IF last'.op = "on_tick"
                   THEN SignalsOf(k, data_frames'[last'.symbol]).entry_signal
                   ELSE last'.entry_signal
                /\ LevelsOf(trades'[id], last'.price, active_strategies[k])
    \* an entry signal on a symbol without open trade opens one
    /\ (IsCall("execute_signal") /\ last'.entry_signal /\ active_trades[last'.symbol] = 0)
          => Created # {}
    /\ (/\ IsCall("on_tick")
        /\ active_trades[last'.symbol] = 0
        /\ \E k \in BoundTo(last'.symbol) :
              SignalsOf(k, data_frames'[last'.symbol]).entry_signal)
          => Created # {}

C5_BacktestStep ==
    IsBtBar =>
        LET opened == bt_st'.active_trade # <<>> /\ bt_st'.active_trade # BtSlot
            free   == BtSlot = <<>> \/ Breaches(BtSlot[1], BtPrice)
        IN  /\ opened <=> (BtSignals.entry_signal /\ free)
            /\ opened => /\ LevelsOf(bt_st'.active_trade[1], BtPrice, bt_config)
                         /\ bt_st'.active_trade[1].entry_time = bt_i

C5_Entry == [][C5_LiveStep /\ C5_BacktestStep]_vars

\* a tick has just opened a trade on a symbol that had a trade before
C5_Witness ==
    /\ last.op = "on_tick"
    /\ active_trades[last.symbol] # 0
    /\ trades[active_trades[last.symbol]].entry_time = clock
    /\ \E j \in LiveIds : j < active_trades[last.symbol] /\ trades[j].symbol = last.symbol

--------------------------------------------------------------------------
(* C6: a trade that is still OPEN after the risk check of a tick (bar) and *)
(* for which exit_signal is true on that tick is closed in that tick with  *)
(* reason "Strategy Signal" and exit_price = the current price, also when  *)
(* entry_signal is true on the same tick.                                  *)
SignalClosed(trade, price, time) ==
    /\ trade.status = "CLOSED"
    /\ trade.exit_reason = "Strategy Signal"
    /\ NumEq(trade.exit_price, price)
    /\ trade.exit_time = time

C6_LiveStep ==
    /\ IsCall("on_tick") =>
          LET symbol == last'.symbol
              id     == active_trades[symbol]
          IN  (/\ id # 0
               /\ ~Breaches(trades[id], last'.price)
               /\ \E k \in BoundTo(symbol) :
                     SignalsOf(k, data_frames'[symbol]).exit_signal)
              => SignalClosed(trades'[id], last'.price, clock')
    /\ IsCall("execute_signal") =>
          LET id == active_trades[last'.symbol]
          IN  (id # 0 /\ last'.exit_signal)
              => /\ SignalClosed(trades'[id], last'.price, clock')
                 /\ active_trades'[last'.symbol] = 0
                 /\ Created = {}

C6_BacktestStep ==
    IsBtBar =>
        ((/\ BtSlot # <<>>
          /\ ~Breaches(BtSlot[1], BtPrice)
          /\ BtSignals.exit_signal)
         => /\ Len(bt_st'.trades) = Len(BtClosed) + 1
            /\ LET closed == bt_st'.trades[Len(BtClosed) + 1]
               IN  /\ closed.entry_time = BtSlot[1].entry_time
                   /\ closed.exit_reason = "Strategy Signal"
                   /\ NumEq(closed.exit_price, BtPrice)
                   /\ closed.exit_time = bt_i
            /\ bt_st'.active_trade = <<>>)

C6_SignalExit == [][C6_LiveStep /\ C6_BacktestStep]_vars

\* a tick closed a trade for the signal of a strategy whose entry signal
\* was true on the same tick
C6_Witness ==
    /\ last.op = "on_tick"
    /\ \E id \in LiveIds :
          /\ trades[id].symbol = last.symbol
          /\ trades[id].entry_time < clock
          /\ SignalClosed(trades[id], last.price, clock)
    /\ \E k \in BoundTo(last.symbol) :
          /\ SignalsOf(k, data_frames[last.symbol]).exit_signal
          /\ SignalsOf(k, data_frames[last.symbol]).entry_signal

--------------------------------------------------------------------------
(* C7: a trade (live or simulated by a backtest) has status OPEN from its  *)
(* entry until it is closed and status CLOSED afterwards; exit_price,      *)
(* exit_time, exit_reason and pnl are set when it is closed and at no      *)
(* other time; a CLOSED trade is never modified or reopened; history and   *)
(* the backtest's list of closed trades are append-only.                   *)
(* The backtest creates its simulated trade with status "CLOSED", so the   *)
(* statement is violated.                                                  *)
IsPrefix(a, b) == Len(a) <= Len(b) /\ SubSeq(b, 1, Len(a)) = a
InSeq(x, seq) == \E k \in 1..Len(seq) : seq[k] = x

\* an open trade: status OPEN, none of the exit fields
OpenShape(trade) ==
    trade.status = "OPEN" /\ ExitFields \cap DOMAIN trade = {}
\* a closed trade: status CLOSED, all of the exit fields
ClosedShape(trade) ==
    trade.status = "CLOSED" /\ ExitFields \subseteq DOMAIN trade

C7_States ==
    /\ \A j, k \in 1..Len(history) : history[j] = history[k] => j = k
    /\ \A id \in LiveIds :
          IF InSeq(id, history)
          THEN ClosedShape(trades[id]) /\ active_trades[trades[id].symbol] # id
          ELSE OpenShape(trades[id]) /\ active_trades[trades[id].symbol] = id
    /\ BtSlot # <<>> => OpenShape(BtSlot[1])
    /\ \A k \in 1..Len(BtClosed) : ClosedShape(BtClosed[k])

C7_Steps ==
    /\ \A id \in LiveIds : trades[id].status = "CLOSED" => trades'[id] = trades[id]
    /\ IsPrefix(history, history')
    /\ bt_pc = "loop" => IsPrefix(BtClosed, bt_st'.trades)

C7_TradeLifecycle == [][C7_States' /\ C7_Steps]_vars

--------------------------------------------------------------------------
(* C8: for every closed trade, produced live or by a backtest,             *)
(* pnl = (exit_price - entry_price) * qty exactly, where qty is the        *)
(* trade's quantity: the qty the live trade records, and one unit for the  *)
(* backtest's trade, which records no qty.                                 *)
Quantity(trade) == IF "qty" \in DOMAIN trade THEN trade.qty ELSE DefaultQty

PnlExact(trade) ==
    /\ IsFinite(trade.pnl)
    /\ trade.pnl = Mul(Sub(trade.exit_price, trade.entry_price), Int2Val(Quantity(trade)))

C8_Pnl ==
    /\ \A k \in 1..Len(history) : PnlExact(trades[history[k]])
    /\ \A k \in 1..Len(BtClosed) : PnlExact(BtClosed[k])
    /\ bt_pc = "done" => \A k \in 1..Len(bt_result.trades) : PnlExact(bt_result.trades[k])

\* a backtest has closed a trade whose pnl is not a whole number
C8_Witness ==
    /\ bt_pc = "done"
    /\ \E k \in 1..Len(bt_result.trades) :
          /\ bt_result.trades[k].pnl.d # 1
          /\ NumLt(bt_result.trades[k].pnl, Int2Val(0))

--------------------------------------------------------------------------
(* C9: for one strategy bound to one symbol, with fixed risk parameters    *)
(* and a bar series that opens no trade before the backtest's start index, *)
(* the closed trades the backtest produces from its start index on equal,  *)
(* as a sequence of (entry price, exit price, exit reason, pnl), the       *)
(* closed trades the order manager records when the same bars are fed to   *)
(* on_tick one by one.                                                     *)
(* The backtest closes a risk exit at sl_price / target_price with reason  *)
(* "Stop Loss", the live path at the tick's price with reason "Stop Loss   *)
(* Hit", so the statement is violated.                                     *)
Outcome(trade) ==
    << trade.entry_price, trade.exit_price, trade.exit_reason, trade.pnl >>

LiveOutcomes == [k \in 1..Len(history) |-> Outcome(trades[history[k]])]
BacktestOutcomes == [k \in 1..Len(bt_result.trades) |-> Outcome(bt_result.trades[k])]

\* both paths have consumed the whole series
BothDone == bt_pc = "done" /\ clock = Len(bt_in.df)

\* tick k carries bar k - 1: no live trade was entered during the warm-up
FlatAtStart == \A id \in LiveIds : trades[id].entry_time > bt_start_idx(bt_in.df)

C9_SameClosedTrades ==
    (BothDone /\ Len(bt_in.df) >= MinBars /\ FlatAtStart)
        => LiveOutcomes = BacktestOutcomes

--------------------------------------------------------------------------
(* C10: no lookahead.  For any two bar series that agree on bars 0..i, the *)
(* indicator values at bar i and the decision the backtest takes at bar i  *)
(* (risk close, entry, signal exit) are identical, whatever the bars after *)
(* i are; the loop visits the bar indices in strictly increasing order.    *)
(* Two series that agree on bars 0..i have the same series cut after bar   *)
(* i: the values and the decision of a run at bar i are those of its       *)
(* series cut after bar i, hence the same for both.                        *)
AgreeUpTo(a, b, i) ==
    Len(a) > i /\ Len(b) > i /\ SubSeq(a, 1, i + 1) = SubSeq(b, 1, i + 1)

\* the bar series that agree with the one of the run on bars 0..i
Alternatives(i) == {other \in BarInputs : AgreeUpTo(other, bt_in.df, i)}

\* the series of the run without the bars after bar i, with its indicators
CutAfter(i) ==
    calculate_indicators(bt_config.symbol, SubSeq(bt_in.df, 1, i + 1), bt_config.indicators)

C10_Bar ==
    (bt_pc = "loop" /\ bt_i < Len(bt_df)) =>
        LET cut == CutAfter(bt_i)
        IN  /\ Len(cut) = bt_i + 1
            /\ cut[bt_i + 1] = bt_df[bt_i + 1]
            /\ bt_bar_raises(bt_config, cut, bt_i) = bt_bar_raises(bt_config, bt_df, bt_i)
            /\ bt_bar(bt_config, cut, bt_i, bt_st) = bt_bar(bt_config, bt_df, bt_i, bt_st)

C10_Order ==
    /\ (bt_pc = "loop" /\ bt_pc' = "loop") => bt_i' = bt_i + 1
    /\ bt_pc = "loop" =>
          \A k \in (Len(BtClosed) + 1)..Len(bt_st'.trades) :
              /\ bt_st'.trades[k].exit_time = bt_i
              /\ bt_st'.trades[k].entry_time < bt_i

--------------------------------------------------------------------------
(* The result store: BacktestEngine.save_results behind POST /backtest/run. *)
(* A table is the set of its committed rows; a commit that raises leaves    *)
(* the tables as they were (the session is closed without a commit).        *)
max_runs == 100

MaxRequests == 2

\* INTEGER PRIMARY KEY of SQLite: one more than the largest id of the table
NextId(rows) ==
    IF rows = {} THEN 1
    ELSE (CHOOSE r \in rows : \A q \in rows : q.id <= r.id).id + 1

\* default=datetime.utcnow: a time after every stored timestamp
utcnow(runs) ==
    IF runs = {} THEN 1
    ELSE (CHOOSE r \in runs : \A q \in runs : q.timestamp <= r.timestamp).timestamp + 1

\* db.add(run); db.commit()
save_run(runs, result) ==
    runs \cup {[id            |-> NextId(runs),
                strategy_name |-> result.summary.strategy_name,
                total_trades  |-> result.summary.total_trades,
                timestamp     |-> utcnow(runs)]}

\* the loop of db.add(trade) and its db.commit()
save_trades(rows, run_id, ts) ==
    rows \cup {[id          |-> NextId(rows) + k - 1,
                run_id      |-> run_id,
                pnl         |-> ts[k].pnl,
                exit_reason |-> ts[k].exit_reason] : k \in 1..Len(ts)}

\* order_by(BacktestRun.timestamp.asc()).limit(total_runs - max_runs)
old_runs(runs) ==
    {r \in runs : Cardinality({q \in runs : q.timestamp < r.timestamp})
                    < Cardinality(runs) - max_runs}

\* a cleanup that deletes the old runs and leaves their trades
cleanup_runs_only(runs, rows) ==
    IF Cardinality(runs) > max_runs
    THEN [runs |-> runs \ old_runs(runs), trades |-> rows]
    ELSE [runs |-> runs, trades |-> rows]

\* the auto-cleanup and its db.commit()
cleanup(runs, rows) ==
    IF Cardinality(runs) > max_runs
    THEN LET old == {r.id : r \in old_runs(runs)}
         IN  [runs   |-> {r \in runs : r.id \notin old},
              trades |-> {t \in rows : t.run_id \notin old}]
    ELSE [runs |-> runs, trades |-> rows]

\* results computed by run_backtest for the requests of this store
StoreResults ==
    {run_backtest(c, df, <<>>) : c \in {EmaCross, Level, SmaTrend}, df \in ConcBars}

\* a store left by n earlier completed saves: every other run has a trade
StoredRuns(n) ==
    {[id |-> k, strategy_name |-> Level.name, total_trades |-> k % 2, timestamp |-> k] :
        k \in 1..n}

StoredTrades(n) ==
    {[id |-> (k + 1) \div 2, run_id |-> k, pnl |-> Int2Val(2), exit_reason |-> "Target Hit"] :
        k \in {j \in 1..n : j % 2 = 1}}

\* empty, one below the limit, at the limit, and above it (left by a cleanup
\* whose commit failed)
StoreSizes == {0, max_runs - 1, max_runs, max_runs + 1}

InitStore ==
    /\ InitBase(<< EmaCross, Level, SmaTrend >>)
    /\ InitPaper
    /\ \E n \in StoreSizes : db_runs = StoredRuns(n) /\ db_trades = StoredTrades(n)
    /\ api = api_idle

storeFrame == <<liveVars, bt_pc, bt_in, bt_config, bt_df, bt_i, bt_st, bt_result, bt2,
                loadVars, ev>>

\* the endpoint up to `results = backtest_engine.run_backtest(...)`
ApiRun(results) ==
    /\ api.pc \in {"idle", "responded"}
    /\ api.served < MaxRequests
    /\ api' = [pc |-> "computed", results |-> results, run_id |-> 0, response |-> <<>>,
               served |-> api.served + 1, store_failed |-> FALSE]
    /\ UNCHANGED <<storeFrame, db_runs, db_trades>>

\* a commit of save_results raises: the exception leaves save_results
StoreFails ==
    /\ api.pc \in {"computed", "run_saved", "trades_saved"}
    /\ api' = [api EXCEPT !.pc = "raised", !.store_failed = TRUE]
    /\ UNCHANGED <<storeFrame, db_runs, db_trades>>

\* db.add(run); db.commit(); db.refresh(run)
SaveRun ==
    /\ api.pc = "computed"
    /\ db_runs' = save_run(db_runs, api.results)
    /\ api' = [api EXCEPT !.pc = "run_saved", !.run_id = NextId(db_runs)]
    /\ UNCHANGED <<storeFrame, db_trades>>

SaveTrades ==
    /\ api.pc = "run_saved"
    /\ db_trades' = save_trades(db_trades, api.run_id, api.results.trades)
    /\ api' = [api EXCEPT !.pc = "trades_saved"]
    /\ UNCHANGED <<storeFrame, db_runs>>

\* the auto-cleanup, its commit, and `return run.id`
Cleanup ==
    /\ api.pc = "trades_saved"
    /\ LET db == cleanup(db_runs, db_trades)
       IN  /\ db_runs' = db.runs
           /\ db_trades' = db.trades
    /\ api' = [api EXCEPT !.pc = "saved"]
    /\ UNCHANGED storeFrame

\* results['summary']['id'] = run_id; return results
Respond ==
    /\ api.pc = "saved"
    /\ api' = [api EXCEPT !.pc = "responded",
                          !.response = [status |-> 200,
                                        body |-> [api.results EXCEPT !.summary =
                                                    ("id" :> api.run_id) @@ @]]]
    /\ UNCHANGED <<storeFrame, db_runs, db_trades>>

\* the exception of save_results is caught nowhere in the endpoint: the
\* framework answers 500 Internal Server Error
RespondError ==
    /\ api.pc = "raised"
    /\ api' = [api EXCEPT !.pc = "responded",
                          !.response = [status |-> 500, body |-> <<>>]]
    /\ UNCHANGED <<storeFrame, db_runs, db_trades>>

\* DELETE /backtest/clear
ClearHistory ==
    /\ api.pc \in {"idle", "responded"}
    /\ db_runs # {}
    /\ db_runs' = {}
    /\ db_trades' = {}
    /\ UNCHANGED <<storeFrame, api>>

NextStore ==
    \/ \E results \in StoreResults : ApiRun(results)
    \/ StoreFails
    \/ SaveRun
    \/ SaveTrades
    \/ Cleanup
    \/ Respond
    \/ RespondError
    \/ ClearHistory

SpecStore == InitStore /\ [][NextStore]_vars

--------------------------------------------------------------------------
(* Live trading against the broker: the manager in either mode, with or    *)
(* without a valid access token, and a broker that accepts or refuses.     *)
InitBroker ==
    /\ InitBase(<< EmaCross, Level, SmaTrend >>)
    /\ InitStoreEmpty
    /\ paper_trading \in BOOLEAN
    /\ access_token \in BOOLEAN
    /\ broker_up \in BOOLEAN
    /\ orders = <<>>

brokerFrame == <<active_strategies, data_frames, active_trades, trades, history, clock,
                 last, orders, btVars>>

\* order_manager.paper_trading = ...
SetPaperTrading ==
    /\ paper_trading' = ~paper_trading
    /\ UNCHANGED <<brokerFrame, access_token, broker_up>>

\* the token file is written by a login, or expires
TokenChanges ==
    /\ access_token' = ~access_token
    /\ UNCHANGED <<brokerFrame, paper_trading, broker_up>>

\* the broker starts or stops accepting orders
BrokerChanges ==
    /\ broker_up' = ~broker_up
    /\ UNCHANGED <<brokerFrame, paper_trading, access_token>>

NextBroker ==
    \/ \E symbol \in Symbols, p \in Prices : OnTick(symbol, p)
    \/ SetPaperTrading
    \/ TokenChanges
    \/ BrokerChanges

SpecBroker == InitBroker /\ [][NextBroker]_vars

--------------------------------------------------------------------------
(* Overlapping requests                                                    *)

\* the live state a backtest could disturb
LiveState == <<data_frames, active_trades, trades, history, orders>>

\* a step of either run_backtest call
IsRunStep == bt_pc' # bt_pc \/ bt_i' # bt_i \/ bt2' # bt2

\* every strategy file of the directory
ConcStrategies == UNION {{dir[k] : k \in 1..Len(dir)} : dir \in StrategyDirs}

\* every request of the overlapping runs with the result of the same call
\* running alone
SoloRuns ==
    {[in     |-> [strategy_config |-> c, df |-> df, overrides |-> o],
      result |-> run_backtest(c, df, o)] :
        c \in ConcStrategies, df \in ConcBars, o \in OverrideInputs}

Run1Done == bt_pc = "done"
Run2Done == bt2.pc = "done"

\* C11, the live half: a step of a run_backtest call changes nothing of the
\* live state, and an on_tick step between the steps of the runs yields the
\* state on_tick computes from the live state alone.
C11_Steps ==
    /\ IsRunStep => LiveState' = LiveState
    /\ IsCall("on_tick") =>
          LET symbol == last'.symbol
              price  == last'.price
              df     == append_price(data_frames[symbol], price)
              om     == on_tick_om(OM, active_strategies, symbol, df, price, clock')
          IN  /\ data_frames' = [data_frames EXCEPT ![symbol] = df]
              /\ active_trades' = om.active_trades
              /\ trades' = om.trades
              /\ history' = om.history

\* C11, the backtest half: the result a run returns is the result of the
\* same call running alone.
C11_Results ==
    /\ Run1Done => [in |-> bt_in, result |-> bt_result] \in SoloRuns
    /\ Run2Done => [in |-> bt2.in, result |-> bt2.result] \in SoloRuns

\* C11: under any interleaving of the steps of two run_backtest calls and
\* live on_tick calls, the live trade map, history and price series evolve as
\* if no backtest ran, and each run returns what it returns running alone.
C11_PrivateRuns == [][C11_Results' /\ C11_Steps]_vars

\* a finished run with closed trades, a second run of another configuration
\* in the middle of its loop with a different trade list, and a live trade
\* opened by a tick meanwhile
C11_Witness ==
    /\ Run1Done /\ bt_result.trades # <<>>
    /\ bt2.pc = "loop" /\ bt2.i > bt_start_idx(bt2.df)
    /\ bt2.in # bt_in /\ bt2.st.trades # bt_result.trades
    /\ \E symbol \in Symbols : active_trades[symbol] # 0

\* the start of either run_backtest call
IsRun1Start == bt_pc = "idle" /\ bt_pc' # "idle"
IsRun2Start == bt2.pc = "idle" /\ bt2'.pc # "idle"

\* the parameters an indicator is to be computed with under the overrides:
\* the override's value for every parameter it names, the indicator's own
\* value for the others
ParamsUnder(ind, overrides) ==
    IF ind.id \in DOMAIN overrides
    THEN [key \in DOMAIN ind.params \cup DOMAIN overrides[ind.id] |->
            IF key \in DOMAIN overrides[ind.id] THEN overrides[ind.id][key]
            ELSE ind.params[key]]
    ELSE ind.params

\* config is base with the overridden parameters and nothing else changed
IsOverridden(config, base, overrides) ==
    /\ DOMAIN config = DOMAIN base
    /\ \A f \in DOMAIN base \ {"indicators"} : config[f] = base[f]
    /\ Len(config.indicators) = Len(base.indicators)
    /\ \A k \in 1..Len(base.indicators) :
          /\ config.indicators[k].id = base.indicators[k].id
          /\ config.indicators[k].type = base.indicators[k].type
          /\ config.indicators[k].params = ParamsUnder(base.indicators[k], overrides)

\* the indicator columns are those of the overridden parameters
ColumnsUnder(df2, config, df) ==
    \A k \in 1..Len(config.indicators) :
        LET ind == config.indicators[k]
        IN  Lower(ind.type) = "ema" =>
              Column(df2, ind.id) = EwmMean(Column(df, "close"), ind.params.period)

C12_Start ==
    /\ IsRun1Start =>
          /\ IsOverridden(bt_config', bt_in'.strategy_config, bt_in'.overrides)
          /\ ColumnsUnder(bt_df', bt_config', bt_in'.df)
          /\ \E k \in 1..Len(active_strategies) :
                active_strategies[k] = bt_in'.strategy_config
    /\ IsRun2Start =>
          /\ IsOverridden(bt2'.config, bt2'.in.strategy_config, bt2'.in.overrides)
          /\ ColumnsUnder(bt2'.df, bt2'.config, bt2'.in.df)
    /\ IsRunStep => active_strategies' = active_strategies

\* a run without overrides returns the un-overridden result of the strategy
\* file of that name
C12_Again ==
    (Run2Done /\ bt2.in.overrides = <<>>) =>
        \E c \in ConcStrategies :
            /\ c.name = bt2.in.strategy_config.name
            /\ [in     |-> [strategy_config |-> c, df |-> bt2.in.df, overrides |-> <<>>],
                result |-> bt2.result] \in SoloRuns

--------------------------------------------------------------------------
(* The result of a run                                                     *)

\* C13: a run on fewer than 20 bars, none included, raises nothing and
\* returns at once: total_pnl 0, win_rate 0, total_trades 0 and no trades,
\* with no bar evaluated and no trade opened.
C13_ShortSeries ==
    (bt_pc # "idle" /\ Len(bt_in.df) < 20) =>
        /\ bt_pc = "done"
        /\ bt_result.summary.total_pnl = Int2Val(0)
        /\ bt_result.summary.win_rate = Int2Val(0)
        /\ bt_result.summary.total_trades = 0
        /\ bt_result.trades = <<>>
        /\ bt_st = [active_trade |-> <<>>, trades |-> <<>>]
        /\ bt_i = 0

\* nineteen bars ending above the entry level of the strategy run on them
C13_Witness ==
    /\ bt_pc = "done"
    /\ Len(bt_in.df) = 19
    /\ bt_in.strategy_config = Level
    /\ NumLt(Int2Val(99), bt_in.df[19].close)
    /\ bt_result.summary.total_trades = 0

\* the run on no bar at all
C13_Empty == bt_pc = "done" /\ bt_in.df = <<>> /\ bt_result.trades = <<>>

\* the pnl of the first n trades of a list, added one by one
RECURSIVE PnlOfFirst(_, _)
PnlOfFirst(ts, n) ==
    IF n = 0 THEN Int2Val(0) ELSE Add(PnlOfFirst(ts, n - 1), ts[n].pnl)

\* the trades of a list closed with a gain
Winners(ts) == {k \in 1..Len(ts) : Sign(ts[k].pnl) = 1}

\* C14: in the result of a run total_trades is the number of closed trades,
\* total_pnl the sum of their pnl, and win_rate the share of trades with
\* pnl > 0 in percent, 0 when there is no trade.
C14_Summary ==
    bt_pc = "done" =>
        LET ts == bt_result.trades
            summary == bt_result.summary
        IN  /\ \A k \in 1..Len(ts) :
                  {"exit_price", "exit_time", "exit_reason", "pnl"} \subseteq DOMAIN ts[k]
            /\ summary.total_trades = Len(ts)
            /\ summary.total_pnl = PnlOfFirst(ts, Len(ts))
            /\ ts = <<>> => summary.win_rate = Int2Val(0)
            /\ ts # <<>> =>
                  /\ IsFinite(summary.win_rate)
                  /\ Mul(summary.win_rate, Int2Val(Len(ts)))
                        = Int2Val(100 * Cardinality(Winners(ts)))

\* two closed trades, one with a gain and one with a loss
C14_Witness ==
    /\ bt_pc = "done"
    /\ bt_result.summary.total_trades = 2
    /\ Cardinality(Winners(bt_result.trades)) = 1
    /\ bt_result.summary.win_rate = Int2Val(50)
    /\ Sign(bt_result.summary.total_pnl) # 0

\* every bar of the series closes at the same price
IsConstant(df) == \A i \in 1..Len(df) : df[i].close = df[1].close

\* close and the moving averages of a strategy: the columns that are equal
\* (or NaN) on every bar of a constant series
LevelColumns(config) ==
    {"close"} \cup {config.indicators[k].id : k \in
        {j \in 1..Len(config.indicators) :
            Lower(config.indicators[j].type) \in {"ema", "sma"}}}

\* a condition that needs a price move to hold: a crossover, a strict
\* comparison between close and moving averages, an "and" group holding such
\* a condition, or an "or" group of such conditions only
RECURSIVE NeedsMove(_, _)
NeedsMove(config, c) ==
    IF DOMAIN c = {} THEN TRUE
    ELSE IF "and" \in DOMAIN c
         THEN \E k \in 1..Len(c["and"]) : NeedsMove(config, c["and"][k])
    ELSE IF "or" \in DOMAIN c
         THEN \A k \in 1..Len(c["or"]) : NeedsMove(config, c["or"][k])
    ELSE /\ c.operator \in {"cross_over", "cross_under", ">", "<"}
         /\ IsStr(c.left) /\ c.left.s \in LevelColumns(config)
         /\ IsStr(c.right) /\ c.right.s \in LevelColumns(config)

\* stop-loss and target percentages that are not negative
RiskNotNegative(config) ==
    /\ ~NumLt(sl_perc_of(config), Int2Val(0))
    /\ ~NumLt(target_perc_of(config), Int2Val(0))

\* C15 as stated: for every strategy a run on a constant-price series returns
\* total_trades 0, total_pnl 0 and win_rate 0.
C15_ConstantNoTrades ==
    (bt_pc = "done" /\ IsConstant(bt_in.df)) =>
        /\ bt_result.summary.total_trades = 0
        /\ bt_result.summary.total_pnl = Int2Val(0)
        /\ bt_result.summary.win_rate = Int2Val(0)

\* C15, amended: on a constant-price series a run returns total_pnl 0 and
\* win_rate 0 for every strategy (every trade it closes has pnl 0), and
\* total_trades 0, with no trade opened, for every strategy whose entry
\* condition needs a price move.
C15_ConstantSeries ==
    (bt_pc = "done" /\ IsConstant(bt_in.df) /\ RiskNotNegative(bt_config)) =>
        /\ NumEq(bt_result.summary.total_pnl, Int2Val(0))
        /\ bt_result.summary.win_rate = Int2Val(0)
        /\ \A k \in 1..Len(bt_result.trades) : Sign(bt_result.trades[k].pnl) = 0
        /\ NeedsMove(bt_config, bt_config.entry_conditions) =>
              /\ bt_result.summary.total_trades = 0
              /\ bt_result.trades = <<>>
              /\ bt_st.active_trade = <<>>

\* a crossover strategy run to the end of a constant series with bars after
\* the warm-up
C15_Witness ==
    /\ bt_pc = "done"
    /\ IsConstant(bt_in.df)
    /\ Len(bt_in.df) > WarmupBars + 1
    /\ bt_i = Len(bt_df)
    /\ bt_config.name = EmaCross.name
    /\ NeedsMove(bt_config, bt_config.entry_conditions)
    /\ bt_result.summary.total_trades = 0

--------------------------------------------------------------------------
(* The stored runs                                                         *)

TradesOf(rows, run) == {t \in rows : t.run_id = run.id}

\* a save_results call has returned
SaveCompleted == api.pc = "saved"

\* no stored trade refers to a missing run
NoOrphanTrade == \A t \in db_trades : \E r \in db_runs : r.id = t.run_id

\* after a completed save the store holds at most 100 runs, the run just
\* saved among them, with the trades it was saved with
C17_After ==
    /\ NoOrphanTrade
    /\ SaveCompleted =>
          /\ Cardinality(db_runs) <= 100
          /\ \E r \in db_runs :
                /\ r.id = api.run_id
                /\ \A q \in db_runs : q.timestamp <= r.timestamp
                /\ Cardinality(TradesOf(db_trades, r)) = Len(api.results.trades)

\* the step that completes a save keeps the most recent runs; a step that
\* removes runs removes all of their trades, and no step removes a trade of a
\* run it retains
C17_Step ==
    /\ (api.pc = "trades_saved" /\ SaveCompleted') =>
          /\ db_runs' \subseteq db_runs
          /\ \A gone \in db_runs \ db_runs', kept \in db_runs' :
                gone.timestamp < kept.timestamp
          /\ Cardinality(db_runs') = Min(Cardinality(db_runs), 100)
    /\ \A r \in db_runs :
          IF r \in db_runs'
          THEN TradesOf(db_trades, r) \subseteq db_trades'
          ELSE \A t \in db_trades' : t.run_id # r.id \/ t \notin db_trades

\* C17: after every completed save_results call the store holds at most 100
\* runs, the most recent by timestamp, the run just saved among them; old
\* runs are removed together with all their trades in one committed step, no
\* stored trade refers to a missing run and no retained run loses a trade.
C17_Retention == [][C17_After' /\ C17_Step]_vars

\* a completed save that removed the oldest run of a full store and kept the
\* trade of the new run
C17_Witness ==
    /\ SaveCompleted
    /\ Cardinality(db_runs) = 100
    /\ \A r \in db_runs : r.id # 1
    /\ \E t \in db_trades : t.run_id = api.run_id

\* C18: when persisting the run fails, the caller still receives the computed
\* result, with the persistence failure reported apart from it.
C18_ResultSurvivesStoreFailure ==
    (api.pc = "responded" /\ api.store_failed) =>
        /\ "summary" \in DOMAIN api.response.body
        /\ api.response.body.summary = api.results.summary
        /\ api.response.body.trades = api.results.trades

--------------------------------------------------------------------------
(* Orders                                                                  *)

\* the orders handed to place_order by the step
NewOrders == SubSeq(orders', Len(orders) + 1, Len(orders'))

\* the trades created and the trades closed by the step
Entered == (Len(trades) + 1)..Len(trades')
Closed == {history'[k] : k \in (Len(history) + 1)..Len(history')}

\* C19: not in paper mode, an order the broker fails leaves the local
\* transition in place: after a failed buy the trade is recorded, OPEN in the
\* active set (or closed later in the same call); after a failed sell the
\* trade is out of the active set and in the history, CLOSED with its exit
\* fields and pnl.
C19_Step ==
    \A j \in 1..Len(NewOrders) :
        LET o == NewOrders[j]
        IN  o.s # "ok" =>
              /\ ~paper_trading
              /\ o.trade \in 1..Len(trades')
              /\ trades'[o.trade].symbol = o.symbol
              /\ o.side = Buy =>
                    /\ o.trade \in Entered
                    /\ \/ /\ active_trades'[o.symbol] = o.trade
                          /\ trades'[o.trade].status = "OPEN"
                       \/ o.trade \in Closed
              /\ o.side = Sell =>
                    /\ active_trades'[o.symbol] # o.trade
                    /\ o.trade \in Closed
                    /\ trades'[o.trade].status = "CLOSED"
                    /\ {"exit_price", "exit_time", "exit_reason", "pnl"}
                          \subseteq DOMAIN trades'[o.trade]
                    /\ trades'[o.trade].pnl
                          = Mul(Sub(trades'[o.trade].exit_price, trades'[o.trade].entry_price),
                                Int2Val(trades'[o.trade].qty))

C19_FailedOrderKeepsTransition == [][C19_Step]_vars

\* a trade whose buy order and whose sell order both failed: closed, in the
\* history, with its pnl
C19_Witness ==
    \E j, k \in 1..Len(orders) :
        /\ orders[j].side = Buy /\ orders[j].s = "error"
        /\ orders[k].side = Sell /\ orders[k].s = "error"
        /\ orders[j].trade = orders[k].trade
        /\ InSeq(orders[j].trade, history)
        /\ trades[orders[j].trade].status = "CLOSED"

\* a trade open in the active set after its buy order failed
C19_OpenAfterFailedBuy ==
    \E j \in 1..Len(orders) :
        /\ orders[j].side = Buy /\ orders[j].s = "error"
        /\ active_trades[orders[j].symbol] = orders[j].trade
        /\ trades[orders[j].trade].status = "OPEN"

\* C20: an order is dispatched for a transition exactly when the manager is
\* not in paper mode: in paper mode a step hands no order to place_order; not
\* in paper mode it hands over one buy order per trade entered and one sell
\* order per trade closed, each for the trade's symbol and quantity.
C20_Step ==
    LET buys  == {j \in 1..Len(NewOrders) : NewOrders[j].side = Buy}
        sells == {j \in 1..Len(NewOrders) : NewOrders[j].side = Sell}
    IN  /\ paper_trading => NewOrders = <<>>
        /\ ~paper_trading =>
              /\ buys \cup sells = 1..Len(NewOrders)
              /\ {NewOrders[j].trade : j \in buys} = Entered
              /\ Cardinality(buys) = Cardinality(Entered)
              /\ {NewOrders[j].trade : j \in sells} = Closed
              /\ Cardinality(sells) = Cardinality(Closed)
              /\ \A j \in 1..Len(NewOrders) :
                    /\ NewOrders[j].symbol = trades'[NewOrders[j].trade].symbol
                    /\ NewOrders[j].qty = trades'[NewOrders[j].trade].qty

C20_OrderIffNotPaper == [][C20_Step]_vars

--------------------------------------------------------------------------
(* StrategyManager.load_strategies, statement by statement.  A file of the *)
(* strategies directory holds text that json.load parses to a dict, or     *)
(* text it raises on.  The directory is a sequence: the order of glob.     *)
(* The endpoints are coroutines with no await in their bodies and nothing  *)
(* starts a thread, so a handler runs only while no other one is inside    *)
(* its body.                                                               *)

JsonFile(strategy) == [parses |-> TRUE, json |-> strategy]
Unparsable == [parses |-> FALSE, json |-> <<>>]

\* the dict with one key deleted
Without(dict, key) == [f \in DOMAIN dict \ {key} |-> dict[f]]

\* strategy files that parse and lack a key every complete strategy has
NoSymbol == Without(Level, "symbol")
NoIndicators == Without(Level, "indicators")
NoConditions == Without(Without(Level, "entry_conditions"), "exit_conditions")

\* the directories of the model: empty, two good files, a bad file between
\* two good ones, and files with keys missing
Directories ==
    { <<>>,
      << JsonFile(EmaCross), JsonFile(Level) >>,
      << JsonFile(Level), Unparsable, JsonFile(EmaCross) >>,
      << JsonFile(Level), JsonFile(NoSymbol) >>,
      << JsonFile(NoIndicators), JsonFile(NoConditions) >> }

MaxReloads == 1
MaxReads == 2
MaxLoadTicks == 1

\* what a handler that can run at any point of another one would be guarded by
may_run_threaded(l) == TRUE

\* the event loop enters a handler only when no load_strategies call is running
may_run(l) == l.pc = "idle"

\* try: json.load(f); append / except: print
load_file(strategies, file) ==
    IF file.parses THEN Append(strategies, file.json) ELSE strategies

\* the list a load_strategies call leaves for the files from the k-th on
RECURSIVE load_from(_, _, _)
load_from(strategies, files, k) ==
    IF k > Len(files) THEN strategies
    ELSE load_from(load_file(strategies, files[k]), files, k + 1)

\* the state after StrategyManager(): __init__ has called load_strategies
InitLoad ==
    /\ \E files \in Directories :
          /\ active_strategies = load_from(<<>>, files, 1)
          /\ load = [pc |-> "idle", files |-> files, k |-> Len(files) + 1,
                     old |-> <<>>, n |-> 0]
    /\ ev = ev_idle
    /\ InitRest
    /\ InitPaper
    /\ InitStoreEmpty

runVars == <<bt_pc, bt_in, bt_config, bt_df, bt_i, bt_st, bt_result, bt2>>
loadFrame == <<data_frames, active_trades, trades, history, clock, last, brokerVars,
               runVars, db_runs, db_trades, api, ev>>

\* POST /strategies/reload enters load_strategies: self.active_strategies = []
ReloadStart(files) ==
    /\ load.pc = "idle"
    /\ load.n < MaxReloads
    /\ active_strategies' = <<>>
    /\ load' = [pc |-> "loading", files |-> files, k |-> 1,
                old |-> active_strategies, n |-> load.n + 1]
    /\ UNCHANGED <<seen, loadFrame>>

\* one turn of the loop over path.glob("*.json")
LoadFile ==
    /\ load.pc = "loading"
    /\ load.k <= Len(load.files)
    /\ active_strategies' = load_file(active_strategies, load.files[load.k])
    /\ load' = [load EXCEPT !.k = @ + 1]
    /\ UNCHANGED <<seen, loadFrame>>

\* the loop is over: load_strategies returns
ReloadReturn ==
    /\ load.pc = "loading"
    /\ load.k > Len(load.files)
    /\ load' = [load EXCEPT !.pc = "idle"]
    /\ UNCHANGED <<active_strategies, seen, loadFrame>>

\* GET /strategies
GetStrategies ==
    /\ may_run(load)
    /\ seen.n < MaxReads
    /\ seen' = [reader |-> "get_strategies", strategies |-> active_strategies,
                raised |-> FALSE, n |-> seen.n + 1]
    /\ UNCHANGED <<active_strategies, load, loadFrame>>

\* POST /backtest/run: next((s for s in active_strategies if s['name'] == ...))
FindStrategy ==
    /\ may_run(load)
    /\ seen.n < MaxReads
    /\ seen' = [reader |-> "run_backtest", strategies |-> active_strategies,
                raised |-> \E k \in DOMAIN active_strategies :
                              "name" \notin DOMAIN active_strategies[k],
                n |-> seen.n + 1]
    /\ UNCHANGED <<active_strategies, load, loadFrame>>

\* strategy_manager.on_tick(...) while reloads come and go
LoadTick(symbol, current_price) ==
    /\ may_run(load)
    /\ seen.n < MaxReads
    /\ clock < MaxLoadTicks
    /\ LET df == append_price(data_frames[symbol], current_price)
       IN  /\ data_frames' = [data_frames EXCEPT ![symbol] = df]
           /\ SetOM(on_tick_om(OM, active_strategies, symbol, df, current_price, clock + 1))
           /\ seen' = [reader |-> "on_tick", strategies |-> active_strategies,
                       raised |-> on_tick_raises(active_strategies, 1, symbol, df),
                       n |-> seen.n + 1]
    /\ clock' = clock + 1
    /\ last' = Call("on_tick", symbol, current_price, FALSE, FALSE, "")
    /\ UNCHANGED <<active_strategies, load, runVars, db_runs, db_trades, api, ev>>

NextLoad ==
    \/ \E files \in Directories : ReloadStart(files)
    \/ LoadFile
    \/ ReloadReturn
    \/ GetStrategies
    \/ FindStrategy
    \/ \E current_price \in ConcPrices : LoadTick("A", current_price)

SpecLoad == InitLoad /\ [][NextLoad]_vars

\* a reader has just read active_strategies
IsRead == seen'.n = seen.n + 1

\* the set in force before the reload in progress (or the last one), and the
\* set that reload builds
OldSet == load.old
NewSet == load_from(<<>>, load.files, 1)

(* C21: reload replaces the active strategy set atomically: whatever reads *)
(* active_strategies (a tick, the backtest lookup, the listing) reads the  *)
(* complete set of before the reload or the complete set the reload        *)
(* builds, never the cleared list or a list with only some of the files.   *)
C21_Step == IsRead => seen'.strategies \in {OldSet, NewSet}

C21_ReloadIsAtomic == [][C21_Step]_vars

\* a reader ran after a reload that changed the set, and between two reloads
\* of different, non-empty sets
C21_Witness ==
    /\ seen.reader = "on_tick"
    /\ load.n = 1
    /\ load.pc = "idle"
    /\ OldSet # NewSet
    /\ Len(NewSet) = 2
    /\ seen.strategies = NewSet

\* the keys the claim names are all there
WellFormed(strategy) ==
    {"symbol", "indicators", "entry_conditions", "exit_conditions"} \subseteq DOMAIN strategy

(* C22: a malformed strategy file (unparsable, or with no symbol, no       *)
(* indicators or no condition trees) is skipped by the load and never      *)
(* becomes a member of the active set; so every member of the active set   *)
(* has a symbol, indicators and both condition trees, and no tick fails    *)
(* because of a malformed strategy.                                        *)
C22_MalformedNeverActive ==
    /\ \A k \in DOMAIN active_strategies : WellFormed(active_strategies[k])
    /\ seen.reader = "on_tick" => ~seen.raised

--------------------------------------------------------------------------
(* The evaluator as a function: a frame is drawn, and evaluate_strategy,   *)
(* _evaluate_single_condition or _check_condition_group is applied to it.  *)
(* The frames have a column r next to close; r can hold NaN.               *)

MaxEvalBars == 2

EvalRows == {[close |-> Int2Val(c), r |-> v] : c \in {1, 2}, v \in {Int2Val(1), Int2Val(2), NaN}}
EvalFrames == SeqsUpTo(EvalRows, MaxEvalBars)

Operators == {">", "<", "==", "cross_over", "cross_under"}

\* leaves on the two columns and on a literal
ColumnLeaves ==
    {Leaf(op, Str("close"), Str("r")) : op \in Operators}
        \cup {Leaf(op, Str("r"), Str("close")) : op \in Operators}
        \cup {Leaf(op, Str("close"), Int2Val(1)) : op \in Operators}

\* leaves with a token that names no column: a misspelled indicator id
TokenLeaves ==
    {Leaf(op, Str("ema_fats"), Str("close")) : op \in Operators}
        \cup {Leaf(op, Str("close"), Str("ema_fats")) : op \in Operators}

\* the empty dict and an operator the evaluator does not know
OtherLeaves == {<<>>, Leaf(">=", Str("close"), Str("r"))}

\* groups over children drawn from S: none, one or two of them
Groups(S) ==
    LET children == {<<>>} \cup {<<a>> : a \in S} \cup {<<a, b>> : a \in S, b \in S}
    IN  {AndOf(cs) : cs \in children} \cup {OrOf(cs) : cs \in children}

TreeLeaves == {Leaf(">", Str("close"), Str("r")), Leaf("==", Str("close"), Str("r"))}
Trees == Groups(TreeLeaves \cup Groups(TreeLeaves))

\* strategies on the columns of these frames
OnColumns ==
    [name             |-> "On Columns",
     symbol           |-> "A",
     indicators       |-> << Indicator("ema2", "ema", 2) >>,
     entry_conditions |-> AndOf(<< Leaf(">", Str("close"), Str("r")) >>),
     exit_conditions  |-> OrOf(<< Leaf("<", Str("close"), Str("ema2")),
                                  Leaf("cross_under", Str("close"), Str("r")) >>)]
EvalStrategies == {OnColumns, Level, EmaCross, NoConditions}

InitEval ==
    /\ \E df \in EvalFrames : ev = [pc |-> "ready", df |-> df]
    /\ active_strategies = <<>>
    /\ load = load_idle
    /\ InitRest
    /\ InitPaper
    /\ InitStoreEmpty

evalFrame == <<liveVars, runVars, db_runs, db_trades, api, loadVars>>

Returned(op, arg, result) ==
    [pc |-> "done", df |-> ev.df, op |-> op, arg |-> arg, result |-> result]

\* strategy_manager.evaluate_strategy(strategy, df)
EvaluateStrategy(strategy) ==
    /\ ev.pc = "ready"
    /\ ev' = Returned("evaluate_strategy", strategy, evaluate_strategy(strategy, ev.df))
    /\ UNCHANGED evalFrame

\* strategy_manager._evaluate_single_condition(cond, df)
EvaluateSingleCondition(cond) ==
    /\ ev.pc = "ready"
    /\ ev' = Returned("_evaluate_single_condition", cond, evaluate_single_condition(cond, ev.df))
    /\ UNCHANGED evalFrame

\* strategy_manager._check_condition_group(group, df)
CheckConditionGroup(group) ==
    /\ ev.pc = "ready"
    /\ ev.df # <<>>
    /\ ev' = Returned("_check_condition_group", group, check_condition_group(group, ev.df))
    /\ UNCHANGED evalFrame

NextEval ==
    \/ \E strategy \in EvalStrategies : EvaluateStrategy(strategy)
    \/ \E cond \in ColumnLeaves \cup TokenLeaves \cup OtherLeaves : EvaluateSingleCondition(cond)
    \/ \E group \in Trees : CheckConditionGroup(group)

SpecEval == InitEval /\ [][NextEval]_vars

IsEvaluated(op) == ev.pc = "done" /\ ev.op = op

Curr == ev.df[Len(ev.df)]
Prev == IF Len(ev.df) > 1 THEN ev.df[Len(ev.df) - 1] ELSE Curr

\* the value of an operand that names a column or is a number
ValueOn(key, row) == IF IsStr(key) THEN row[key.s] ELSE key

IsCrossCall ==
    /\ IsEvaluated("_evaluate_single_condition")
    /\ ev.df # <<>>
    /\ ev.arg \in ColumnLeaves
    /\ ev.arg.operator \in {"cross_over", "cross_under"}

(* C24: cross_over(L, R) is true iff prev[L] <= prev[R] and                *)
(* curr[L] > curr[R]; cross_under(L, R) is true iff prev[L] >= prev[R] and *)
(* curr[L] < curr[R], whatever the values on the last two bars; both are   *)
(* false when the two bars are the same and when there is one bar only.    *)
C24_Cross ==
    IsCrossCall =>
        LET pl == ValueOn(ev.arg.left, Prev)
            pr == ValueOn(ev.arg.right, Prev)
            cl == ValueOn(ev.arg.left, Curr)
            cr == ValueOn(ev.arg.right, Curr)
        IN  /\ ev.result \in {"T", "F"}
            /\ ev.arg.operator = "cross_over"
                  => (ev.result = "T" <=> NumLe(pl, pr) /\ NumLt(cr, cl))
            /\ ev.arg.operator = "cross_under"
                  => (ev.result = "T" <=> NumLe(pr, pl) /\ NumLt(cl, cr))
            /\ Len(ev.df) = 1 \/ Prev = Curr => ev.result = "F"

\* r was at or above close and close has crossed above it
C24_Witness ==
    /\ IsCrossCall
    /\ Len(ev.df) = 2
    /\ ev.arg = Leaf("cross_over", Str("close"), Str("r"))
    /\ Prev # Curr
    /\ ev.result = "T"

\* the boolean a tree denotes: And is for-all, Or is exists, a leaf its comparison
RECURSIVE Denotes(_, _)
Denotes(tree, df) ==
    IF "and" \in DOMAIN tree
    THEN \A k \in DOMAIN tree["and"] : Denotes(tree["and"][k], df)
    ELSE IF "or" \in DOMAIN tree
    THEN \E k \in DOMAIN tree["or"] : Denotes(tree["or"][k], df)
    ELSE evaluate_single_condition(tree, df) = "T"

(* C25: the recursive evaluator gives a condition tree the value of its    *)
(* boolean reading: an And node is true iff every child is, an Or node iff *)
(* some child is, through nested And/Or nodes down to the leaves.          *)
C25_Tree ==
    IsEvaluated("_check_condition_group") =>
        /\ ev.result \in {"T", "F"}
        /\ ev.result = "T" <=> Denotes(ev.arg, ev.df)

\* an And node with an Or node among two children, true
C25_Witness ==
    /\ IsEvaluated("_check_condition_group")
    /\ "and" \in DOMAIN ev.arg
    /\ Len(ev.arg["and"]) = 2
    /\ \E k \in DOMAIN ev.arg["and"] : "or" \in DOMAIN ev.arg["and"][k]
    /\ ev.result = "T"

(* C26: a leaf whose operand names no column of the bar is evaluated with  *)
(* the token as a literal: the evaluation returns true or false and never  *)
(* raises.                                                                 *)
C26_TokenIsLiteral ==
    IsEvaluated("_evaluate_single_condition") /\ ev.df # <<>> /\ ev.arg \in TokenLeaves
        => ev.result \in {"T", "F"}

--------------------------------------------------------------------------
(* The crossover scenario of tests/demo_test.py and tests/test_orders.py:  *)
(* one EMA(9)/EMA(21) strategy is loaded and the ticks of its symbol come  *)
(* one by one, each evaluated on the series so far.                        *)

Ema921 ==
    [name             |-> "EMA 9/21",
     symbol           |-> "A",
     indicators       |-> << Indicator("ema_fast", "ema", 9), Indicator("ema_slow", "ema", 21) >>,
     entry_conditions |-> AndOf(<< Leaf("cross_over", Str("ema_fast"), Str("ema_slow")) >>),
     exit_conditions  |-> AndOf(<< Leaf("cross_under", Str("ema_fast"), Str("ema_slow")) >>)]

MaxDemoBars == 4
DemoPrices == {Int2Val(100), Int2Val(101), Int2Val(102), Int2Val(103), Int2Val(120)}

InitCross == InitWith(<< Ema921 >>)

\* strategy_manager.on_tick({"symbol": "A", "last_price": current_price})
DemoTick(current_price) ==
    /\ bt_pc = "idle"
    /\ clock < MaxDemoBars
    /\ Tick("A", current_price)

NextCross == \E current_price \in DemoPrices : DemoTick(current_price)

SpecCross == InitCross /\ [][NextCross]_vars

\* the series of the symbol with the two averages, and the bars where the
\* fast one is above the slow one
DemoFrame == calculate_indicators("A", data_frames["A"], Ema921.indicators)
FastAbove(j) == NumLt(DemoFrame[j].ema_slow, DemoFrame[j].ema_fast)

\* the entry signal of the evaluation on the series so far (its last bar)
EntryNow == evaluate_strategy(active_strategies[1], data_frames["A"]).entry_signal

C27_Bars ==
    LET n == Len(data_frames["A"])
    IN  n > 0 =>
            /\ FastAbove(n) /\ (\A j \in 1..(n - 1) : ~FastAbove(j)) => EntryNow
            /\ (\A j \in 1..n : ~FastAbove(j)) => ~EntryNow

C27_Tick ==
    /\ clock' = clock + 1
    /\ data_frames["A"] # <<>>
    /\ IsConstant(data_frames["A"])
    /\ NumLt(data_frames["A"][1].close, last'.price)
    => /\ active_trades'["A"] # 0
       /\ trades'[active_trades'["A"]].status = "OPEN"
       /\ NumEq(trades'[active_trades'["A"]].entry_price, last'.price)

(* C27: with an EMA-fast / EMA-slow cross_over entry condition evaluated   *)
(* bar by bar, the entry signal is true at the bar where the fast average  *)
(* is above the slow one for the first time and false at every bar before  *)
(* it; and a tick above a flat series raises the entry signal and opens a  *)
(* trade at the price of the tick.                                         *)
C27_EntryAtFirstCross == [](C27_Bars) /\ [][C27_Tick]_vars

\* the closes 100, 101 of the demo came and 101 opened the trade, or a flat
\* series at 100 was followed by 120 and 120 opened it
C27_Witness ==
    /\ Len(data_frames["A"]) \in {2, 3}
    /\ data_frames["A"][1].close = Int2Val(100)
    /\ active_trades["A"] # 0
    /\ \/ /\ Len(data_frames["A"]) = 2
          /\ data_frames["A"][2].close = Int2Val(101)
          /\ NumEq(trades[active_trades["A"]].entry_price, Int2Val(101))
       \/ /\ Len(data_frames["A"]) = 3
          /\ data_frames["A"][2].close = Int2Val(100)
          /\ data_frames["A"][3].close = Int2Val(120)
          /\ NumEq(trades[active_trades["A"]].entry_price, Int2Val(120))

--------------------------------------------------------------------------
(* calculate_indicators as a function: a series of closes is drawn and an  *)
(* sma, an ema and an rsi of one period are computed on it.                *)

MaxIndBars == 3
MaxPeriod == 3

IndPrices == {Int2Val(99), Int2Val(100), Int2Val(102)}
IndFrames == {Frame(closes) : closes \in SeqsUpTo(IndPrices, MaxIndBars)}

InitInd ==
    /\ \E df \in IndFrames : ev = [pc |-> "ready", df |-> df]
    /\ active_strategies = <<>>
    /\ load = load_idle
    /\ InitRest
    /\ InitPaper
    /\ InitStoreEmpty

\* the caller's frame after a call that wrote the columns into the frame it got
calculated_in_place(df, indicators) == calculate_indicators("A", df, indicators)

\* the caller's frame after the call: df = df.copy() takes the columns
caller_df(df, indicators) == df

\* strategy_manager.calculate_indicators(symbol, df, indicators)
CalculateIndicators(period) ==
    /\ ev.pc = "ready"
    /\ LET indicators == << Indicator("sma", "sma", period),
                            Indicator("ema", "EMA", period),
                            Indicator("rsi", "rsi", period) >>
       IN  ev' = [after |-> caller_df(ev.df, indicators)]
                    @@ Returned("calculate_indicators", indicators,
                                calculate_indicators("A", ev.df, indicators))
    /\ UNCHANGED evalFrame

\* a second call, on the first k bars of what the first one returned (the
\* backtest passes df.iloc[:i+1] of the frame with the columns to the evaluator)
CalculateAgain(k) ==
    /\ ev.pc = "done"
    /\ ev.op = "calculate_indicators"
    /\ k <= Len(ev.result)
    /\ ev' = [ev EXCEPT !.pc = "again"]
                @@ [k      |-> k,
                    second |-> calculate_indicators("A", SubSeq(ev.result, 1, k), ev.arg)]
    /\ UNCHANGED evalFrame

NextInd ==
    \/ \E period \in 1..MaxPeriod : CalculateIndicators(period)
    \/ \E k \in 0..MaxIndBars : CalculateAgain(k)

SpecInd == InitInd /\ [][NextInd]_vars

IsCalculated == IsEvaluated("calculate_indicators") /\ ev.df # <<>>
PeriodOf == ev.arg[1].params.period

\* close[lo] + ... + close[hi] of the frame given, one bar after the other
RECURSIVE SumOfCloses(_, _, _)
SumOfCloses(df, lo, hi) ==
    IF lo > hi THEN Int2Val(0) ELSE Add(SumOfCloses(df, lo, hi - 1), df[hi].close)

(* C28: sma(p) at bar i is absent while fewer than p bars exist and is the *)
(* arithmetic mean of the closes i-p+1..i from then on; ema(p) is the      *)
(* first close at bar 0 and alpha*close[i] + (1-alpha)*ema[i-1] at every   *)
(* later bar, with alpha = 2/(p+1).  (Bars are counted from 1 here.)       *)
C28_Averages ==
    IsCalculated =>
        LET p     == PeriodOf
            alpha == Rat(2, p + 1)
            out   == ev.result
        IN  /\ Len(out) = Len(ev.df)
            /\ \A i \in 1..Len(out) :
                  /\ out[i].close = ev.df[i].close
                  /\ i < p => IsNaN(out[i].sma)
                  /\ i >= p => NumEq(Mul(out[i].sma, Int2Val(p)),
                                     SumOfCloses(ev.df, i - p + 1, i))
                  /\ i = 1 => NumEq(out[i].ema, ev.df[1].close)
                  /\ i > 1 => NumEq(out[i].ema,
                                    Add(Mul(alpha, ev.df[i].close),
                                        Mul(Sub(Int2Val(1), alpha), out[i - 1].ema)))

\* three different closes with period 2: one absent sma, two means, two
\* steps of the recurrence
C28_Witness ==
    /\ IsCalculated
    /\ PeriodOf = 2
    /\ Len(ev.df) = 3
    /\ ev.df[1].close # ev.df[2].close
    /\ ev.df[2].close # ev.df[3].close
    /\ IsNaN(ev.result[1].sma)
    /\ IsFinite(ev.result[3].sma)

\* no close of the window that ends at bar i is below the close before it:
\* the rolling mean loss is zero there
NoLossIn(df, i, p) ==
    \A j \in (i - p + 1)..i : j > 1 => NumLe(df[j - 1].close, df[j].close)

(* C29: where the rolling mean loss of a full window is zero, rsi is       *)
(* defined and equals 100, also when the mean gain is zero as well (a flat *)
(* window): no undefined and no infinite value is produced.                *)
C29_RsiZeroLoss ==
    IsCalculated =>
        \A i \in PeriodOf..Len(ev.df) :
            NoLossIn(ev.df, i, PeriodOf) => NumEq(ev.result[i].rsi, Int2Val(100))

--------------------------------------------------------------------------
\* min(50, n - 1) for a frame of n bars
FirstIndex(df) == IF Len(df) - 1 < 50 THEN Len(df) - 1 ELSE 50

\* the trades of a backtest state, the open one included, all entered and
\* closed at indices from lo to hi
TradesWithin(st, lo, hi) ==
    /\ \A k \in DOMAIN st.trades :
          /\ st.trades[k].entry_time \in lo..hi
          /\ st.trades[k].exit_time \in lo..hi
    /\ st.active_trade # <<>> => st.active_trade[1].entry_time \in lo..hi

C30_Step ==
    /\ bt_pc = "idle" /\ bt_pc' = "loop"
          => /\ Len(bt_df') >= 20
             /\ bt_i' = FirstIndex(bt_df')
             /\ bt_st'.trades = <<>> /\ bt_st'.active_trade = <<>>
    /\ bt_pc = "loop" /\ bt_pc' = "loop"
          => /\ bt_i \in FirstIndex(bt_df)..(Len(bt_df) - 1)
             /\ bt_i' = bt_i + 1
             /\ TradesWithin(bt_st, FirstIndex(bt_df), bt_i - 1)
             /\ TradesWithin(bt_st', FirstIndex(bt_df), bt_i)
    /\ bt_pc = "loop" /\ bt_pc' = "done"
          => /\ bt_i = Len(bt_df)
             /\ TradesWithin(bt_st, FirstIndex(bt_df), Len(bt_df) - 1)
             /\ bt_result'.trades = bt_st.trades

(* C30: run_backtest on n >= 20 bars evaluates the bar indices             *)
(* min(50, n-1), ..., n-1, each once and in increasing order (the loop     *)
(* starts at min(50, n-1), goes up by one per bar and returns after bar    *)
(* n-1), and no trade is entered or closed at an index below min(50, n-1). *)
C30_LoopIndices == [][C30_Step]_vars

\* a run on 53 bars returned with a trade entered and closed at bars 50..52
C30_Witness ==
    /\ bt_pc = "done"
    /\ Len(bt_df) = 53
    /\ bt_i = 53
    /\ bt_result.trades # <<>>
    /\ bt_result.trades[1].entry_time >= 50

--------------------------------------------------------------------------
(* A live session on a long series: the series of symbol A holds a history *)
(* of different closes when the ticks start (tests/test_orders.py assigns  *)
(* data_frames[symbol] the same way), so that the window of 100 is reached *)
(* within a few ticks.                                                     *)

WindowWarm == 98

InitWindow ==
    /\ active_strategies = << Level, SmaTrend >>
    /\ load = load_idle
    /\ ev = ev_idle
    /\ seen = seen_none
    /\ data_frames = [s \in Symbols |->
                         IF s = "A" THEN Frame([i \in 1..WindowWarm |-> Int2Val(i)]) ELSE <<>>]
    /\ active_trades = [s \in Symbols |-> 0]
    /\ trades = <<>>
    /\ history = <<>>
    /\ clock = 0
    /\ last = Call("init", "", Int2Val(0), FALSE, FALSE, "")
    /\ bt_pc = "idle"
    /\ bt_in = <<>>
    /\ bt_config = <<>>
    /\ bt_df = <<>>
    /\ bt_i = 0
    /\ bt_st = [active_trade |-> <<>>, trades |-> <<>>]
    /\ bt_result = <<>>
    /\ bt2 = run_idle
    /\ InitPaper
    /\ InitStoreEmpty

NextWindow == \E symbol \in Symbols, current_price \in Prices : OnTick(symbol, current_price)

SpecWindow == InitWindow /\ [][NextWindow]_vars

\* the step is an on_tick call
IsTick == clock' = clock + 1 /\ last'.op = "on_tick"

C31_Step ==
    IsTick =>
        LET old  == data_frames[last'.symbol]
            new  == data_frames'[last'.symbol]
            gone == Len(old) + 1 - Len(new)
        IN  /\ Len(new) = (IF Len(old) + 1 > 100 THEN 100 ELSE Len(old) + 1)
            /\ NumEq(new[Len(new)].close, last'.price)
            /\ \A i \in 1..(Len(new) - 1) : new[i] = old[i + gone]

(* C31: the live price series of a symbol never holds more than 100 bars,  *)
(* and a tick leaves in it the most recent ticks in arrival order: the new *)
(* price is appended at the end and, when the series is full, the oldest   *)
(* bar is the one dropped.                                                 *)
C31_BoundedSeries ==
    [](\A s \in Symbols : Len(data_frames[s]) <= 100) /\ [][C31_Step]_vars

\* the series is full and its oldest bar has been dropped
C31_Witness ==
    /\ Len(data_frames["A"]) = 100
    /\ last.op = "on_tick"
    /\ last.symbol = "A"
    /\ data_frames["A"][1].close # Int2Val(1)
    /\ NumEq(data_frames["A"][100].close, last.price)

--------------------------------------------------------------------------
(* C32: calculate_indicators leaves the series it is given as it was; on   *)
(* an empty series it returns the series with no field added; and called   *)
(* again on its own output, or on the first bars of its output, it gives   *)
(* the indicator values of one call on the raw closes of those bars.       *)
C32_Pure ==
    /\ ev.pc \in {"done", "again"} /\ ev.op = "calculate_indicators"
          => /\ ev.after = ev.df
             /\ ev.df = <<>> => ev.result = <<>>
    /\ ev.pc = "again"
          => /\ ev.second = calculate_indicators("A", SubSeq(ev.df, 1, ev.k), ev.arg)
             /\ ev.second = SubSeq(ev.result, 1, ev.k)

\* a second call on the whole output of a first one with defined values
C32_Witness ==
    /\ ev.pc = "again"
    /\ ev.k = 3
    /\ Len(ev.df) = 3
    /\ ev.df[2].close # ev.df[3].close
    /\ DOMAIN ev.second[3] = {"close", "sma", "ema", "rsi"}
    /\ IsFinite(ev.second[3].sma)

--------------------------------------------------------------------------
\* where a trade dict is held: the symbols whose active slot holds it and the
\* places of the history that hold it
SlotsOf(id) == {s \in Symbols : active_trades[s] = id}
PlacesOf(id) == {k \in DOMAIN history : history[k] = id}

(* C33: between operations every trade that was entered is in exactly one  *)
(* of the active set and the history, and in one place of it; the number   *)
(* of entries made is the number of active trades plus the number of       *)
(* trades appended to the history.                                         *)
C33_Conservation ==
    /\ \A id \in LiveIds : Cardinality(SlotsOf(id)) + Cardinality(PlacesOf(id)) = 1
    /\ \A s \in Symbols : active_trades[s] # 0 => active_trades[s] \in LiveIds
    /\ \A k \in DOMAIN history : history[k] \in LiveIds
    /\ Len(trades) = Cardinality({s \in Symbols : active_trades[s] # 0}) + Len(history)

\* two entries were made on one symbol: the first is history, the second active
C33_Witness ==
    /\ Len(trades) >= 2
    /\ history # <<>>
    /\ \E s \in Symbols :
          /\ active_trades[s] # 0
          /\ trades[history[1]].symbol = s

C34_Step == IsCall("on_tick") => \A id \in Created : trades'[id].status = "OPEN"

(* C34: a trade that is opened during an on_tick call is not closed during *)
(* the same call, however many loaded strategies are bound to the symbol   *)
(* of the tick.                                                            *)
C34_OpenedStaysOpen == [][C34_Step]_vars

C35_LiveStep ==
    IsCall("on_tick") =>
        LET symbol == last'.symbol
            id     == active_trades[symbol]
        IN  (/\ id # 0
             /\ Breaches(trades[id], last'.price)
             /\ \E k \in BoundTo(symbol) : SignalsOf(k, data_frames'[symbol]).entry_signal)
            => /\ trades'[id].status = "CLOSED"
               /\ trades'[id].exit_reason \in RiskReasonsLive
               /\ \E new \in Created :
                     /\ trades'[new].symbol = symbol
                     /\ trades'[new].entry_time = clock'
                     /\ NumEq(trades'[new].entry_price, last'.price)

C35_BacktestStep ==
    IsBtBar =>
        ((/\ BtSlot # <<>>
          /\ Breaches(BtSlot[1], BtPrice)
          /\ BtSignals.entry_signal)
         => /\ Len(bt_st'.trades) = Len(BtClosed) + 1
            /\ bt_st'.trades[Len(BtClosed) + 1].exit_reason \in RiskReasonsBacktest
            /\ bt_st'.active_trade # <<>>
            /\ bt_st'.active_trade[1].entry_time = bt_i
            /\ NumEq(bt_st'.active_trade[1].entry_price, BtPrice))

(* C35: a close by the risk check does not suppress the signal step of the *)
(* same tick or bar: when the open trade is closed by stop-loss or target  *)
(* and an entry signal is true on that tick (bar), a new trade of the      *)
(* symbol is opened in it at its price, live and in the backtest.          *)
C35_ReentryAfterRiskClose == [][C35_LiveStep /\ C35_BacktestStep]_vars

\* a tick closed the first trade by its target or stop and opened the second
C35_Witness ==
    /\ Len(trades) >= 2
    /\ last.op = "on_tick"
    /\ trades[1].symbol = trades[2].symbol
    /\ trades[1].status = "CLOSED"
    /\ trades[1].exit_reason \in RiskReasonsLive
    /\ trades[1].exit_time = trades[2].entry_time
    /\ trades[2].entry_time = clock
    /\ NumEq(trades[2].entry_price, last.price)

--------------------------------------------------------------------------
BacktestReasons == {"Stop Loss", "Target Hit", "Strategy Signal"}

\* the simulated trade still open when the loop ended
OpenAtEnd == bt_st.active_trade

(* C36: every trade of the trades list of a backtest result is complete:   *)
(* it has exit_price, exit_time, pnl and one of the three exit reasons.  A *)
(* simulated trade still open when the bars run out is not in the list and *)
(* is not counted in total_trades or in total_pnl.                         *)
C36_CompleteTrades ==
    bt_pc = "done" =>
        LET ts == bt_result.trades
        IN  /\ \A k \in DOMAIN ts :
                  /\ ExitFields \subseteq DOMAIN ts[k]
                  /\ ts[k].exit_reason \in BacktestReasons
                  /\ IsFinite(ts[k].exit_price) /\ IsFinite(ts[k].pnl)
            /\ ts = bt_st.trades
            /\ OpenAtEnd # <<>> =>
                  /\ ExitFields \cap DOMAIN OpenAtEnd[1] = {}
                  /\ \A k \in DOMAIN ts : ts[k].entry_time < OpenAtEnd[1].entry_time
            /\ bt_result.summary.total_trades = Len(bt_st.trades)
            /\ bt_result.summary.total_pnl = PnlOfFirst(bt_st.trades, Len(bt_st.trades))

\* a run returned one closed trade and left a later one open
C36_Witness ==
    /\ bt_pc = "done"
    /\ Len(bt_result.trades) = 1
    /\ OpenAtEnd # <<>>
    /\ bt_result.summary.total_trades = 1

(* C37: the backtest holds at most one simulated open trade at any bar and *)
(* its trades do not overlap: a trade is closed at a bar after the one it  *)
(* was entered at, the next trade is entered at or after the bar the       *)
(* previous one was closed at, and the list is in the order of closing.    *)
C37_NoOverlap ==
    bt_pc \in {"loop", "done"} =>
        LET ts == bt_st.trades
        IN  /\ Len(bt_st.active_trade) <= 1
            /\ \A k \in DOMAIN ts : ts[k].entry_time < ts[k].exit_time
            /\ \A k \in 1..(Len(ts) - 1) :
                  /\ ts[k].exit_time <= ts[k + 1].entry_time
                  /\ ts[k].exit_time <= ts[k + 1].exit_time
            /\ bt_st.active_trade # <<>> /\ ts # <<>>
                  => ts[Len(ts)].exit_time <= bt_st.active_trade[1].entry_time
            /\ bt_st.active_trade # <<>> => bt_st.active_trade[1].entry_time < bt_i

\* a trade was closed and the next one entered at the same bar, still open
C37_Witness ==
    /\ bt_pc = "loop"
    /\ Len(bt_st.trades) = 1
    /\ bt_st.active_trade # <<>>
    /\ bt_st.trades[1].exit_time = bt_st.active_trade[1].entry_time

--------------------------------------------------------------------------
C38_Step ==
    IsCall("on_tick") =>
        LET symbol == last'.symbol
        IN  /\ \A s \in Symbols \ {symbol} :
                  /\ data_frames'[s] = data_frames[s]
                  /\ active_trades'[s] = active_trades[s]
            /\ \A id \in LiveIds : trades[id].symbol # symbol => trades'[id] = trades[id]
            /\ \A id \in Created : trades'[id].symbol = symbol
            /\ IsPrefix(history, history')
            /\ \A k \in (Len(history) + 1)..Len(history') :
                  trades'[history'[k]].symbol = symbol

(* C38: on_tick for a symbol changes the price series and the trade of     *)
(* that symbol only: the series and the open trade of every other symbol   *)
(* stay as they were, and no history entry of another symbol is added or   *)
(* changed.                                                                *)
C38_OtherSymbolsUntouched == [][C38_Step]_vars

\* a tick of B opened or closed a trade of B while A had a series and an
\* open trade
C38_Witness ==
    /\ last.op = "on_tick"
    /\ last.symbol = "B"
    /\ data_frames["A"] # <<>>
    /\ active_trades["A"] # 0
    /\ \E id \in LiveIds : trades[id].symbol = "B"

--------------------------------------------------------------------------
(* strategy_runner.calculate_quantity, applied once to bounded arguments.  *)
(* Prices are whole rupees; capital is <<>> where the caller leaves it out.*)

capital_per_trade == 50000
RiskLimit == 1000

\* int(a / b): the quotient with its fraction dropped, towards zero
int_quotient(a, b) ==
    LET q == Abs(a) \div Abs(b)
    IN  IF (a < 0) = (b < 0) THEN q ELSE -q

Max(a, b) == IF a > b THEN a ELSE b

calculate_quantity(entry_price, stop_loss, capital) ==
    LET cap            == IF capital = <<>> THEN capital_per_trade ELSE capital[1]
        risk_per_share == Abs(entry_price - stop_loss)
    IN  IF risk_per_share = 0
        THEN 0
        ELSE LET max_qty_by_capital == int_quotient(cap, entry_price)
                 max_qty_by_risk    == int_quotient(RiskLimit, risk_per_share)
                 quantity           == Min(max_qty_by_capital, max_qty_by_risk)
             IN  Max(1, quantity)

QtyPrices == {1, 99, 100, 101, 500, 1100, 2500, 49000, 50000, 60000}
QtyCapitals == {<<>>, <<10000>>, <<100000>>}

InitQty ==
    /\ \E entry_price \in QtyPrices, stop_loss \in QtyPrices, capital \in QtyCapitals :
          ev = [pc |-> "args", entry_price |-> entry_price,
                stop_loss |-> stop_loss, capital |-> capital]
    /\ active_strategies = <<>>
    /\ load = load_idle
    /\ InitRest
    /\ InitPaper
    /\ InitStoreEmpty

CalculateQuantity ==
    /\ ev.pc = "args"
    /\ ev' = [ev EXCEPT !.pc = "done"]
                @@ [quantity |-> calculate_quantity(ev.entry_price, ev.stop_loss,
                                                    ev.capital)]
    /\ UNCHANGED evalFrame

NextQty == CalculateQuantity

SpecQty == InitQty /\ [][NextQty]_vars

QtyCapital == IF ev.capital = <<>> THEN capital_per_trade ELSE ev.capital[1]

(* C39: calculate_quantity returns 0 when entry_price equals stop_loss,    *)
(* and otherwise the minimum of floor(capital / entry_price) and           *)
(* floor(1000 / risk_per_share), a quantity whose cost is at most the      *)
(* capital and whose risk is at most 1000.                                 *)
C39_WithinLimits ==
    ev.pc = "done" =>
        LET risk_per_share == Abs(ev.entry_price - ev.stop_loss)
        IN  IF ev.entry_price = ev.stop_loss
            THEN ev.quantity = 0
            ELSE /\ ev.quantity * ev.entry_price <= QtyCapital
                 /\ ev.quantity * risk_per_share <= RiskLimit
                 /\ ev.quantity = Min(QtyCapital \div ev.entry_price,
                                      RiskLimit \div risk_per_share)

====
